---- MODULE Spec2Model ----
(***************************************************************************)
(* Resolution-and-streaming pipeline of the video downloader:              *)
(*   - VideoExtractorService.detectPlatform / extractVideoInfo /           *)
(*     extractQualities / generateDownloadLink  (server video-extractor)   *)
(*   - the /api/validate-url, /api/extract-video-info (background merge)   *)
(*     and /api/stream-video handlers                (server routes)       *)
(* Strings are TLA+ strings; String.prototype.includes is a real substring *)
(* search, so substring accidents of the code are visible to the checker.  *)
(***************************************************************************)
EXTENDS Integers, Sequences, FiniteSets, TLC

VARIABLES
    \* ---- detectPlatform / validate-url ----
    detHost,        \* host part of the URL given to /api/validate-url
    detPath,        \* path part of that URL
    detResult,      \* response of /api/validate-url (status 0: not answered yet)
    detClient,      \* what the client's detectPlatformFromUrl returned ("": not called)
    \* ---- background quality merge of /api/extract-video-info ----
    mgProbed,       \* result of probeQualities(url)
    mgOrig,         \* savedInfo.availableQualities
    mgMerged,       \* Array.from(map.values()) of the last merge
    mgFirst,        \* the list the first merge produced
    mgPc,           \* "saved", "start", "threw", "skipped", "merged", "again", "other"
    mgResp,         \* response of POST /api/extract-video-info
    mgStored,       \* availableQualities of the cached record of the URL
    \* ---- VideoExtractorService.extractVideoInfo ----
    exUrl,          \* the url argument
    exPc,           \* position of the call (see ExtractStart)
    exProbe,        \* what the network probe of tiers 1-2 did
    exTool,         \* what the external tool printed / how it exited
    exSpawned,      \* number of tool processes spawned by the call
    exResult,       \* the promise returned by extractVideoInfo
    \* ---- VideoExtractorService.generateDownloadLink ----
    lkPc,           \* "off", "proc1", "proc1Errored", "fallback", "retry", "done"
    lkSpawned,      \* arguments of the tool processes spawned, in order
    lkExits,        \* how the processes that closed so far ended, in order
    lkResult,       \* the promise returned by generateDownloadLink
    \* ---- GET /api/stream-video ----
    stReq,          \* query parameters and Range header of the request
    stCache,        \* storage.getVideoInfo(url): cached title, if any
    stPc,           \* position of the handler and of its callbacks
    res,            \* the express response object
    stErrorWrites,  \* res.status(..).json(..) calls: was a response under way?
    stUpstream,     \* upstream GETs issued, in order
    stUpResp,       \* the upstream response being relayed
    stProc,         \* transcode subprocess: "none", "running", "errored", "closed"
    stFile,         \* temp output file: "none" (no path yet), "absent", "present"
    stRead,         \* read stream of the temp file / upstream body
    stClient,       \* "connected" or "gone"
    \* ---- POST /api/extract-video-info and /api/generate-download-link, concurrent requests ----
    videoInfoCache, \* MemStorage.videoInfoCache: a Map from url to the cached record
    downloadHistory,\* MemStorage.downloadHistory: the records appended, in order
    rtUrl,          \* url of each extract-video-info request
    rtPc,           \* position of each request: "new", "extracting", "hit", "failed", "answered"
    rtSeen,         \* cachedInfo: what getVideoInfo gave the request
    rtSaved,        \* savedInfo.availableQualities of the request
    rtProbe,        \* background closure of the request: "none", "pending", "threw", "skipped", "merged", "lost"
    rtResp,         \* response of each request
    rtTiers,        \* extractVideoInfo calls made by each request
    rtWrites,       \* cache writes made by each request
    glReq,          \* url and quality of each generate-download-link request
    glPc,           \* position of each generate-download-link request: "new", "answered"
    glLink,         \* generateDownloadLink for the request's streaming url: "never", "resolved", "failed"
    \* ---- temp output paths of concurrent transcodes (GET /api/stream-video) ----
    tpNow,          \* Date.now(): the clock, in milliseconds since the server started
    tpFormat,       \* format parameter of each transcode request
    tpPath,         \* outPath of each transcode request ("": not computed yet)
    tpWrote,        \* the requests whose tool process wrote its output file
    \* ---- client download handshake (VideoPreview, DownloadProgress) ----
    handshake,      \* the refs of VideoPreview, the cookie, and each download's timers and iframe
    hsLast          \* the handler that ran last and the download it belongs to

detVars == <<detHost, detPath, detResult, detClient>>

mgVars == <<mgProbed, mgOrig, mgMerged, mgFirst, mgPc, mgResp, mgStored>>

exVars == <<exUrl, exPc, exProbe, exTool, exSpawned, exResult>>

lkVars == <<lkPc, lkSpawned, lkExits, lkResult>>

stVars == <<stReq, stCache, stPc, res, stErrorWrites, stUpstream, stUpResp,
            stProc, stFile, stRead, stClient>>

rtVars == <<videoInfoCache, downloadHistory, rtUrl, rtPc, rtSeen, rtSaved, rtProbe,
            rtResp, rtTiers, rtWrites, glReq, glPc, glLink>>

tpVars == <<tpNow, tpFormat, tpPath, tpWrote>>

hsVars == <<handshake, hsLast>>

vars == <<detHost, detPath, detResult, detClient,
          mgProbed, mgOrig, mgMerged, mgFirst, mgPc, mgResp, mgStored,
          exUrl, exPc, exProbe, exTool, exSpawned, exResult,
          lkPc, lkSpawned, lkExits, lkResult,
          stReq, stCache, stPc, res, stErrorWrites, stUpstream, stUpResp,
          stProc, stFile, stRead, stClient,
          videoInfoCache, downloadHistory, rtUrl, rtPc, rtSeen, rtSaved, rtProbe,
          rtResp, rtTiers, rtWrites, glReq, glPc, glLink,
          tpNow, tpFormat, tpPath, tpWrote,
          handshake, hsLast>>

\* what the steps of one part of the server leave alone
DetectFrame  == UNCHANGED <<mgVars, exVars, lkVars, stVars, rtVars, tpVars, hsVars>>
MergeFrame   == UNCHANGED <<detVars, exVars, lkVars, stVars, rtVars, tpVars, hsVars>>
ExtractFrame == UNCHANGED <<detVars, mgVars, lkVars, stVars, rtVars, tpVars, hsVars>>
StreamFrame  == UNCHANGED <<detVars, mgVars, exVars, rtVars, tpVars, hsVars>>
RouteFrame   == UNCHANGED <<detVars, mgVars, exVars, lkVars, stVars, tpVars, hsVars>>
TempFrame    == UNCHANGED <<detVars, mgVars, exVars, lkVars, stVars, rtVars, hsVars>>
HandshakeFrame == UNCHANGED <<detVars, mgVars, exVars, lkVars, stVars, rtVars, tpVars>>

(***************************************************************************)
(* String helpers                                                          *)
(***************************************************************************)

\* String.prototype.includes
Includes(s, t) ==
    \E i \in 1..(Len(s) - Len(t) + 1) : SubSeq(s, i, i + Len(t) - 1) = t

\* String.prototype.endsWith
EndsWith(s, t) ==
    Len(s) >= Len(t) /\ SubSeq(s, Len(s) - Len(t) + 1, Len(s)) = t

\* Array.prototype.find over a sequence: index of the first element
\* satisfying Test, 0 when there is none
FindIndex(seq, Test(_)) ==
    IF \E i \in 1..Len(seq) : Test(seq[i])
    THEN CHOOSE i \in 1..Len(seq) :
            Test(seq[i]) /\ \A j \in 1..(i - 1) : ~Test(seq[j])
    ELSE 0

Resolved(v) == [ok |-> TRUE, value |-> v]
Thrown(m)   == [ok |-> FALSE, value |-> m]

\* how a tool process ended: exit code, stdout lines, stderr text
ToolExit(code, lines, stderr) ==
    [exited |-> TRUE, code |-> code, lines |-> lines, stderr |-> stderr]

NotExited == [exited |-> FALSE, code |-> 0, lines |-> <<>>, stderr |-> ""]

\* a promise: pending, or settled once (a later resolve/reject is ignored)
Pending == [state |-> "pending"]
Settle(promise, outcome) == IF promise.state = "pending" THEN outcome ELSE promise
Fulfilled(v) == [state |-> "resolved", value |-> v]
Rejected(m)  == [state |-> "rejected", reason |-> m]

(***************************************************************************)
(* VideoExtractorService.detectPlatform                                    *)
(***************************************************************************)

supportedPlatforms ==
    << "youtube.com", "youtu.be", "tiktok.com", "instagram.com",
       "facebook.com", "twitter.com", "x.com", "vimeo.com", "reddit.com",
       "linkedin.com", "pinterest.com", "pin.it", "dailymotion.com", "dai.ly" >>

\* the if-chain that names the platform of the matched list entry
platformOfDomain(domain) ==
    IF Includes(domain, "youtube") \/ Includes(domain, "youtu.be") THEN "YouTube"
    ELSE IF Includes(domain, "tiktok") THEN "TikTok"
    ELSE IF Includes(domain, "instagram") THEN "Instagram"
    ELSE IF Includes(domain, "facebook") THEN "Facebook"
    ELSE IF Includes(domain, "twitter") \/ Includes(domain, "x.com") THEN "Twitter/X"
    ELSE IF Includes(domain, "vimeo") THEN "Vimeo"
    ELSE IF Includes(domain, "reddit") THEN "Reddit"
    ELSE IF Includes(domain, "linkedin") THEN "LinkedIn"
    ELSE IF Includes(domain, "pinterest") \/ Includes(domain, "pin.it") THEN "Pinterest"
    ELSE IF Includes(domain, "dailymotion") \/ Includes(domain, "dai.ly") THEN "Dailymotion"
    ELSE "Unknown"

detectPlatform(url) ==
    LET Matches(platform) == Includes(url, platform)
        idx == FindIndex(supportedPlatforms, Matches)
    IN  IF idx = 0
        THEN Thrown("Unsupported platform")
        ELSE Resolved(platformOfDomain(supportedPlatforms[idx]))

\* client: getSupportedPlatforms()
getSupportedPlatforms ==
    << "youtube.com", "youtu.be", "tiktok.com", "instagram.com",
       "facebook.com", "twitter.com", "x.com", "vimeo.com", "reddit.com",
       "linkedin.com", "pinterest.com", "pin.it", "dailymotion.com", "dai.ly" >>

\* a client that knows no platform
detectPlatformFromUrl_Unknown(url) == "Unknown"

\* client: detectPlatformFromUrl(url)
detectPlatformFromUrl(url) ==
    LET Matches(platform) == Includes(url, platform)
        idx == FindIndex(getSupportedPlatforms, Matches)
        domain == getSupportedPlatforms[idx]
    IN  IF idx = 0 THEN "Unknown"
        ELSE IF Includes(domain, "youtube") \/ Includes(domain, "youtu.be") THEN "YouTube"
        ELSE IF Includes(domain, "tiktok") THEN "TikTok"
        ELSE IF Includes(domain, "instagram") THEN "Instagram"
        ELSE IF Includes(domain, "facebook") THEN "Facebook"
        ELSE IF Includes(domain, "twitter") \/ Includes(domain, "x.com") THEN "Twitter/X"
        ELSE IF Includes(domain, "vimeo") THEN "Vimeo"
        ELSE IF Includes(domain, "reddit") THEN "Reddit"
        ELSE IF Includes(domain, "linkedin") THEN "LinkedIn"
        ELSE IF Includes(domain, "pinterest") \/ Includes(domain, "pin.it") THEN "Pinterest"
        ELSE IF Includes(domain, "dailymotion") \/ Includes(domain, "dai.ly") THEN "Dailymotion"
        ELSE "Unknown"

(***************************************************************************)
(* Quality options: extractQualities, formatFileSize, the fixed ladders    *)
(***************************************************************************)

\* a JS Map as a sequence of [key, val] entries in insertion order
MapHas(m, k) == \E i \in 1..Len(m) : m[i].key = k

MapGet(m, k) == m[CHOOSE i \in 1..Len(m) : m[i].key = k].val

\* a map that adds an entry on every set, whatever keys it holds
MapSet_Push(m, k, v) == Append(m, [key |-> k, val |-> v])

\* Map.prototype.set: an existing key keeps its position
MapSet(m, k, v) ==
    IF MapHas(m, k)
    THEN [i \in 1..Len(m) |-> IF m[i].key = k THEN [key |-> k, val |-> v] ELSE m[i]]
    ELSE Append(m, [key |-> k, val |-> v])

MapValues(m) == [i \in 1..Len(m) |-> m[i].val]

Option(q, f, s) == [quality |-> q, format |-> f, fileSize |-> s]

\* value of a missing / non-string JSON field
Undefined == "<undefined>"

RECURSIVE Pow1024(_)
Pow1024(i) == IF i = 0 THEN 1 ELSE 1024 * Pow1024(i - 1)

\* Math.floor(Math.log(bytes) / Math.log(1024)) for bytes >= 1
RECURSIVE Log1024(_)
Log1024(bytes) == IF bytes < 1024 THEN 0 ELSE 1 + Log1024(bytes \div 1024)

sizes == <<"B", "KB", "MB", "GB">>

\* formatFileSize: 'Unknown' for 0, else the value in its unit with one decimal
formatFileSize(bytes) ==
    IF bytes = 0 THEN "Unknown"
    ELSE LET i == Log1024(bytes)
             unit == Pow1024(i)
             tenths == (bytes * 10 + unit \div 2) \div unit     \* toFixed(1)
         IN  ToString(tenths \div 10) \o "." \o ToString(tenths % 10) \o " "
                \o (IF i + 1 <= Len(sizes) THEN sizes[i + 1] ELSE "undefined")

DigitChars == {"0", "1", "2", "3", "4", "5", "6", "7", "8", "9"}

DigitValue(c) ==
    CASE c = "0" -> 0 [] c = "1" -> 1 [] c = "2" -> 2 [] c = "3" -> 3 [] c = "4" -> 4
      [] c = "5" -> 5 [] c = "6" -> 6 [] c = "7" -> 7 [] c = "8" -> 8 [] c = "9" -> 9

\* parseInt(label.replace(/\D/g, '')) || 0
RECURSIVE DigitsOf(_, _, _)
DigitsOf(s, i, acc) ==
    IF i > Len(s) THEN acc
    ELSE LET c == SubSeq(s, i, i)
         IN  DigitsOf(s, i + 1, IF c \in DigitChars THEN acc * 10 + DigitValue(c) ELSE acc)

labelHeight(label) == DigitsOf(label, 1, 0)

\* the comparator of the sort in extractQualities
compareQualities(a, b) ==
    IF a.quality = "Audio Only" THEN 1
    ELSE IF b.quality = "Audio Only" THEN -1
    ELSE labelHeight(b.quality) - labelHeight(a.quality)

\* Array.prototype.sort (stable): x goes behind every element that does not
\* compare greater than it
InsertSorted(sorted, x) ==
    LET after == {i \in 1..Len(sorted) : compareQualities(sorted[i], x) <= 0}
        k == IF after = {} THEN 0 ELSE CHOOSE i \in after : \A j \in after : j <= i
    IN  SubSeq(sorted, 1, k) \o <<x>> \o SubSeq(sorted, k + 1, Len(sorted))

RECURSIVE SortQualities(_, _)
SortQualities(seq, sorted) ==
    IF seq = <<>> THEN sorted
    ELSE SortQualities(Tail(seq), InsertSorted(sorted, Head(seq)))

\* label of a declared stream height
qualityLabel(height) ==
    IF height >= 2160 THEN "4K (2160p)"
    ELSE IF height >= 1440 THEN "2K (1440p)"
    ELSE IF height >= 1080 THEN "1080p HD"
    ELSE IF height >= 720 THEN "720p HD"
    ELSE ToString(height) \o "p"

\* format.filesize ? ... : format.filesize_approx ? ... : 'Unknown'
streamFileSize(format) ==
    IF format.filesize /= 0 THEN formatFileSize(format.filesize)
    ELSE IF format.filesize_approx /= 0 THEN formatFileSize(format.filesize_approx)
    ELSE "Unknown"

\* the merge rule of extractQualities: replace the entry of a label when the
\* new stream brings a known size or mp4
preferNew(existing, ext, fileSize) ==
    \/ (existing.fileSize = "Unknown" /\ fileSize /= "Unknown")
    \/ (ext = "mp4" /\ existing.format /= "mp4")

\* one iteration of formats.forEach
addFormat(qualityMap, format) ==
    IF format.height = 0 \/ format.vcodec = "none" THEN qualityMap
    ELSE LET ext == IF format.ext /= Undefined THEN format.ext ELSE "mp4"
             quality == qualityLabel(format.height)
             fileSize == streamFileSize(format)
         IN  IF ~MapHas(qualityMap, quality)
             THEN MapSet(qualityMap, quality, Option(quality, ext, fileSize))
             ELSE IF preferNew(MapGet(qualityMap, quality), ext, fileSize)
                  THEN MapSet(qualityMap, quality, Option(quality, ext, fileSize))
                  ELSE qualityMap

RECURSIVE addFormats(_, _)
addFormats(qualityMap, formats) ==
    IF formats = <<>> THEN qualityMap
    ELSE addFormats(addFormat(qualityMap, Head(formats)), Tail(formats))

extractQualities(formats) ==
    LET qualityMap == addFormats(
            <<[key |-> "audio", val |-> Option("Audio Only", "mp3", "Variable")]>>,
            formats)
    IN  SortQualities(MapValues(qualityMap), <<>>)

\* fixed ladder of the YouTube oEmbed fast path
youtubeLadder ==
    << Option("4K (2160p)", "mp4", "Unknown"), Option("2K (1440p)", "mp4", "Unknown"),
       Option("1080p HD", "mp4", "Unknown"), Option("720p HD", "mp4", "Unknown"),
       Option("480p", "mp4", "Unknown"), Option("360p", "mp4", "Unknown"),
       Option("Audio Only", "mp3", "Variable") >>

\* fixed ladder of the Vimeo / Dailymotion oEmbed paths, of the OG scrape and
\* of the TikTok/Instagram/Pinterest demo placeholder
shortLadder ==
    << Option("1080p HD", "mp4", "Unknown"), Option("720p HD", "mp4", "Unknown"),
       Option("480p", "mp4", "Unknown"), Option("Audio Only", "mp3", "Variable") >>

\* ladder of the 'Sample Video (Demo Mode)' placeholder
demoLadder ==
    << Option("4K (2160p)", "mp4", "245 MB"), Option("2K (1440p)", "mp4", "156 MB"),
       Option("1080p HD", "mp4", "89 MB"), Option("720p HD", "mp4", "45 MB"),
       Option("480p", "mp4", "28 MB"), Option("360p", "mp4", "18 MB"),
       Option("Audio Only", "mp3", "4.2 MB") >>

GenericLadders == {youtubeLadder, shortLadder, demoLadder}

\* streams the external tool can declare (formats[] of its JSON record)
Stream(h, v, e, s, a) ==
    [height |-> h, vcodec |-> v, ext |-> e, filesize |-> s, filesize_approx |-> a]

DeclaredStreams ==
    { Stream(1080, "vp9", "webm", 0, 0),
      Stream(1080, "avc1", "mp4", 5767168, 0),
      Stream(1080, "av01", "mp4", 0, 0),
      Stream(1080, "vp9", "webm", 2097152, 0),
      Stream(720, "avc1", Undefined, 0, 1536),
      Stream(720, "vp9", "webm", 0, 0),
      Stream(360, "avc1", "mp4", 500, 0),
      Stream(2160, "vp9", "webm", 0, 0),
      Stream(0, "none", "m4a", 1536, 0) }

MaxFormats == 2

RECURSIVE SeqsUpTo(_, _)
SeqsUpTo(S, n) ==
    IF n = 0 THEN {<<>>}
    ELSE LET shorter == SeqsUpTo(S, n - 1)
         IN  shorter \cup {Append(q, x) : q \in shorter, x \in S}

FormatLists == SeqsUpTo(DeclaredStreams, MaxFormats)

(***************************************************************************)
(* POST /api/validate-url                                                  *)
(***************************************************************************)

\* URLs passing urlValidationSchema (z.string().url()): scheme, host, path
UrlOf(host, path) == "https://" \o host \o "/" \o path

HostPrefixes == {"", "www.", "m."}

OtherDomains == {"example.com", "netflix.com", "dropbox.com", "pin.items.io"}

SupportedDomainSet == {supportedPlatforms[i] : i \in 1..Len(supportedPlatforms)}

DetHosts == {p \o d : p \in HostPrefixes, d \in SupportedDomainSet \cup OtherDomains}

DetPaths == {"abc123", "watch?v=abc123", "share?u=https://tiktok.com/v/1"}

\* 200 {valid, platform, url} when detectPlatform returns, 400 {valid:false,
\* error} when it throws
validateUrlHandler(url) ==
    LET r == detectPlatform(url)
    IN  IF r.ok
        THEN [status |-> 200, valid |-> TRUE, platform |-> r.value, error |-> ""]
        ELSE [status |-> 400, valid |-> FALSE, platform |-> "", error |-> r.value]

NoValidateResponse == [status |-> 0, valid |-> FALSE, platform |-> "", error |-> ""]

\* the parts of the server that take no step in a specification
DetectOff ==
    detHost = "" /\ detPath = "" /\ detResult = NoValidateResponse /\ detClient = ""

RouteOff ==
    /\ videoInfoCache = <<>> /\ downloadHistory = <<>>
    /\ rtUrl = <<>> /\ rtPc = <<>> /\ rtSeen = <<>> /\ rtSaved = <<>> /\ rtProbe = <<>>
    /\ rtResp = <<>> /\ rtTiers = <<>> /\ rtWrites = <<>>
    /\ glReq = <<>> /\ glPc = <<>> /\ glLink = <<>>

TempOff ==
    /\ tpNow = 0 /\ tpFormat = <<>> /\ tpPath = <<>> /\ tpWrote = {}

HandshakeOff ==
    /\ handshake = <<>> /\ hsLast = "off"

\* no response written yet by the extract-video-info handler
NoExtractResponse == [sent |-> FALSE, status |-> 0, qualities |-> <<>>]

MergeOff ==
    /\ mgProbed = <<>> /\ mgOrig = <<>> /\ mgMerged = <<>> /\ mgFirst = <<>>
    /\ mgPc = "off"
    /\ mgResp = NoExtractResponse /\ mgStored = <<>>

ExtractOff ==
    /\ exUrl = "" /\ exPc = "off" /\ exProbe = "none" /\ exTool = NotExited
    /\ exSpawned = 0 /\ exResult = Pending

NoRequest ==
    [url |-> "", quality |-> "", format |-> "", compatible |-> "", token |-> "",
     range |-> ""]

NoCache == [cached |-> FALSE, title |-> ""]

NoHeaders ==
    [SetCookie |-> "", ContentType |-> "", ContentDisposition |-> "",
     ContentLength |-> "", AcceptRanges |-> ""]

\* a fresh response: nothing set, nothing sent
NewResponse ==
    [headersSent |-> FALSE, status |-> 200, headers |-> NoHeaders,
     body |-> "none", error |-> <<>>, bytes |-> 0, ended |-> FALSE,
     received |-> FALSE]

NoUpstreamResponse ==
    [ok |-> FALSE, status |-> 0, contentLength |-> "", contentType |-> "",
     hasBody |-> FALSE]

LinkOff ==
    /\ lkPc = "off" /\ lkSpawned = <<>> /\ lkExits = <<>> /\ lkResult = Pending

StreamOff ==
    /\ LinkOff
    /\ stReq = NoRequest /\ stCache = NoCache /\ stPc = "off" /\ res = NewResponse
    /\ stErrorWrites = <<>> /\ stUpstream = <<>> /\ stUpResp = NoUpstreamResponse
    /\ stProc = "none" /\ stFile = "none" /\ stRead = "none"
    /\ stClient = "connected"

DetInit ==
    /\ detHost \in DetHosts
    /\ detPath \in DetPaths
    /\ detResult = NoValidateResponse
    /\ detClient = ""
    /\ MergeOff /\ ExtractOff /\ StreamOff /\ RouteOff /\ TempOff /\ HandshakeOff

ValidateUrl ==
    /\ detResult.status = 0
    /\ detResult' = validateUrlHandler(UrlOf(detHost, detPath))
    /\ UNCHANGED <<detHost, detPath, detClient>>
    /\ DetectFrame

\* the client classifies the URL the user typed
ClientDetect ==
    /\ detClient = ""
    /\ detClient' = detectPlatformFromUrl(UrlOf(detHost, detPath))
    /\ UNCHANGED <<detHost, detPath, detResult>>
    /\ DetectFrame

DetNext == ValidateUrl \/ ClientDetect

SpecDetect == DetInit /\ [][DetNext]_vars

(***************************************************************************)
(* VideoExtractorService.extractVideoInfo                                  *)
(***************************************************************************)

UpperLetters == "ABCDEFGHIJKLMNOPQRSTUVWXYZ"
LowerLetters == "abcdefghijklmnopqrstuvwxyz"

\* String.prototype.toLowerCase
RECURSIVE toLowerCase(_)
toLowerCase(s) ==
    IF Len(s) = 0 THEN ""
    ELSE IF Len(s) = 1
    THEN LET up == {i \in 1..Len(UpperLetters) : SubSeq(UpperLetters, i, i) = s}
         IN  IF up = {} THEN s
             ELSE LET i == CHOOSE i \in up : TRUE IN SubSeq(LowerLetters, i, i)
    ELSE LET half == Len(s) \div 2
         IN  toLowerCase(SubSeq(s, 1, half)) \o toLowerCase(SubSeq(s, half + 1, Len(s)))

\* x || fallback for strings
OrElse(x, fallback) == IF x = "" \/ x = Undefined THEN fallback ELSE x

VideoInfo(title, platform, qualities) ==
    [title |-> title, platform |-> platform, availableQualities |-> qualities]

\* which lightweight probe extractVideoInfo tries first for a platform
probeOf(platform) ==
    CASE platform = "YouTube" -> "oembed"
      [] platform = "Vimeo" -> "oembed"
      [] platform = "Dailymotion" -> "oembed"
      [] platform \in {"TikTok", "Instagram", "Pinterest"} -> "scrape"
      [] OTHER -> "none"

\* a probe that answers with the sized ladder of the demo placeholder
probeResult_DemoLadder(platform, title) ==
    VideoInfo(OrElse(title, platform \o " Video"), platform, demoLadder)

\* the metadata a successful probe resolves with
probeResult(platform, title) ==
    IF platform = "YouTube"
    THEN VideoInfo(OrElse(title, "YouTube Video"), platform, youtubeLadder)
    ELSE VideoInfo(OrElse(title, platform \o " Video"), platform, shortLadder)

\* the stderr classification of the tool's non-zero exit
authRequired(errorOutput) ==
    Includes(errorOutput, "Sign in to confirm") \/ Includes(errorOutput, "ERROR: [youtube]")

blockedSignature(errorOutput) ==
    \/ Includes(errorOutput, "HTTP Error 403") \/ Includes(errorOutput, "HTTP Error 401")
    \/ Includes(toLowerCase(errorOutput), "login")
    \/ Includes(toLowerCase(errorOutput), "forbidden")
    \/ Includes(toLowerCase(errorOutput), "private")
    \/ Includes(toLowerCase(errorOutput), "unavailable")
    \/ Includes(toLowerCase(errorOutput), "not available")
    \/ Includes(toLowerCase(errorOutput), "blocked")

scrapedUrl(url) ==
    \/ Includes(url, "tiktok.com") \/ Includes(url, "instagram.com")
    \/ Includes(url, "pinterest.com") \/ Includes(url, "pin.it")

\* a close handler that propagates every failure
toolFailure_Reject(url, platform, errorOutput) ==
    Rejected("Video extraction failed: " \o OrElse(errorOutput, "Unknown error"))

\* the close handler's branch for code !== 0
toolFailure(url, platform, errorOutput) ==
    IF authRequired(errorOutput)
    THEN Fulfilled(VideoInfo("Sample Video (Demo Mode)", platform, demoLadder))
    ELSE IF scrapedUrl(url) /\ blockedSignature(errorOutput)
    THEN LET platformName == IF Includes(url, "tiktok.com") THEN "TikTok"
                             ELSE IF Includes(url, "instagram.com") THEN "Instagram"
                             ELSE "Pinterest"
         IN  Fulfilled(VideoInfo(platformName \o " Sample (Demo Mode)", platform, shortLadder))
    ELSE Rejected("Video extraction failed: " \o OrElse(errorOutput, "Unknown error"))

\* a line of the tool's stdout: not JSON, JSON without title/id, or a record
OutLine(kind, title, formatsKind, formats) ==
    [kind |-> kind, title |-> title, formatsKind |-> formatsKind, formats |-> formats]

\* first line that parses and has a title or an id (0: none)
firstRecord(lines) ==
    LET IsRecord(l) == l.kind = "record" IN FindIndex(lines, IsRecord)

\* a close handler that answers with the fixed ladder whatever the record says
toolSuccess_FixedLadder(platform, lines) ==
    IF lines = <<>>
    THEN Rejected("No output from yt-dlp")
    ELSE IF firstRecord(lines) = 0
    THEN Rejected("No valid video data found in output")
    ELSE Fulfilled(VideoInfo(
            OrElse(lines[firstRecord(lines)].title, "Unknown Title"), platform,
            youtubeLadder))

\* the close handler's branch for code === 0
toolSuccess(platform, lines) ==
    IF lines = <<>>
    THEN Rejected("No output from yt-dlp")
    ELSE IF firstRecord(lines) = 0
    THEN Rejected("No valid video data found in output")
    ELSE LET videoData == lines[firstRecord(lines)]
         IN  IF videoData.formatsKind = "notArray"
             THEN Rejected("Failed to parse video data")
             ELSE Fulfilled(VideoInfo(
                     OrElse(videoData.title, "Unknown Title"), platform,
                     extractQualities(IF videoData.formatsKind = "array"
                                      THEN videoData.formats ELSE <<>>)))

toolClosed(url, platform, tool) ==
    IF tool.code /= 0
    THEN toolFailure(url, platform, tool.stderr)
    ELSE toolSuccess(platform, tool.lines)

ExtractUrls ==
    { "https://youtu.be/abc123", "https://vimeo.com/1",
      "https://www.tiktok.com/@u/video/1", "https://www.reddit.com/r/v/1",
      "https://example.com/v/1" }

ProbeTitles == {"", "Example"}

StderrTexts ==
    { "", "ERROR: [youtube] abc123: Sign in to confirm you are not a bot",
      "ERROR: [TikTok] 1: Login required", "ERROR: Unsupported URL",
      "ERROR: [TikTok] 1: Requested format is not available" }

RecordLines ==
    {OutLine("record", "Example", "array", f) : f \in FormatLists}
        \cup {OutLine("record", Undefined, "missing", <<>>),
              OutLine("record", "Example", "notArray", <<>>)}

NoiseLines == {OutLine("invalid", Undefined, "missing", <<>>),
               OutLine("aux", Undefined, "missing", <<>>)}

ToolOutputs ==
    {<<>>} \cup {<<n>> : n \in NoiseLines} \cup {<<r>> : r \in RecordLines}
        \cup {<<n, r>> : n \in NoiseLines, r \in RecordLines}


ToolExits ==
    {ToolExit(0, o, "") : o \in ToolOutputs}
        \cup {ToolExit(1, <<>>, e) : e \in StderrTexts}

ExtractInit ==
    /\ exUrl \in ExtractUrls
    /\ exPc = "called" /\ exProbe = "none" /\ exTool = NotExited
    /\ exSpawned = 0 /\ exResult = Pending
    /\ DetectOff /\ MergeOff /\ StreamOff /\ RouteOff /\ TempOff /\ HandshakeOff

exPlatform == detectPlatform(exUrl).value

\* const ytDlp = spawn(ytdlpCmd, args)
SpawnProbeTool == exPc' = "tool" /\ exSpawned' = exSpawned + 1

\* what becomes of the rejection of the async executor, which nothing
\* handles: the runtime only warns ("thrown"), or it ends the process
\* ("crashed")
UnhandledRejection == {"thrown", "crashed"}

\* entry of extractVideoInfo up to its first await: detectPlatform throws
\* inside the async executor (the promise is never settled), or the probe of
\* the platform is issued, or the tool is spawned at once
ExtractStart ==
    /\ exPc = "called"
    /\ IF ~detectPlatform(exUrl).ok
       THEN (\E outcome \in UnhandledRejection : exPc' = outcome) /\ UNCHANGED exSpawned
       ELSE IF probeOf(exPlatform) /= "none"
       THEN exPc' = "probe" /\ UNCHANGED exSpawned
       ELSE SpawnProbeTool
    /\ UNCHANGED <<exUrl, exProbe, exTool, exResult>>
    /\ ExtractFrame

\* await fetch(...) rejects (network error, or the abort timer fired), or
\* answers with a non-OK status: the tool is spawned
ProbeFails ==
    /\ exPc = "probe"
    /\ \E how \in {"rejected", "timeout", "notOk"} : exProbe' = how
    /\ SpawnProbeTool
    /\ UNCHANGED <<exUrl, exTool, exResult>>
    /\ ExtractFrame

\* await fetch(...) answers OK: clearTimeout, then the body is awaited
ProbeAnswersOk ==
    /\ exPc = "probe"
    /\ exPc' = "probeBody"
    /\ exProbe' = "ok"
    /\ UNCHANGED <<exUrl, exTool, exSpawned, exResult>>
    /\ ExtractFrame

\* await resp.json() / resp.text() returns: resolve with the fixed ladder
ProbeBodyRead ==
    /\ exPc = "probeBody"
    /\ \E title \in ProbeTitles :
          exResult' = Settle(exResult, Fulfilled(probeResult(exPlatform, title)))
    /\ exPc' = "done"
    /\ UNCHANGED <<exUrl, exProbe, exTool, exSpawned>>
    /\ ExtractFrame

\* await resp.json() / resp.text() throws: caught, the tool is spawned
ProbeBodyThrows ==
    /\ exPc = "probeBody"
    /\ exProbe' = "bodyThrew"
    /\ SpawnProbeTool
    /\ UNCHANGED <<exUrl, exTool, exResult>>
    /\ ExtractFrame

\* ytDlp.on('error'): the tool could not be started
ToolSpawnError ==
    /\ exPc = "tool"
    /\ exResult' = Settle(exResult, Rejected("yt-dlp execution failed"))
    /\ exPc' = "toolErrored"
    /\ UNCHANGED <<exUrl, exProbe, exTool, exSpawned>>
    /\ ExtractFrame

\* ytDlp.on('close') of a tool that ran
ToolClose ==
    /\ exPc = "tool"
    /\ \E t \in ToolExits :
          /\ exTool' = t
          /\ exResult' = Settle(exResult, toolClosed(exUrl, exPlatform, t))
    /\ exPc' = "done"
    /\ UNCHANGED <<exUrl, exProbe, exSpawned>>
    /\ ExtractFrame

\* ytDlp.on('close') after a spawn error: negative code, nothing printed
ToolCloseAfterError ==
    /\ exPc = "toolErrored"
    /\ exTool' = ToolExit(-2, <<>>, "")
    /\ exResult' = Settle(exResult, toolClosed(exUrl, exPlatform, exTool'))
    /\ exPc' = "done"
    /\ UNCHANGED <<exUrl, exProbe, exSpawned>>
    /\ ExtractFrame

ExtractNext ==
    \/ ExtractStart
    \/ ProbeFails
    \/ ProbeAnswersOk
    \/ ProbeBodyRead
    \/ ProbeBodyThrows
    \/ ToolSpawnError
    \/ ToolClose
    \/ ToolCloseAfterError

SpecExtract == ExtractInit /\ [][ExtractNext]_vars

(***************************************************************************)
(* C6                                                                      *)
(***************************************************************************)

\* the call went past a failed fast-path probe and the tool exited zero
\* with a valid record whose formats are a list
C6_Case ==
    /\ exPc = "done"
    /\ probeOf(exPlatform) = "oembed"
    /\ exProbe \in {"rejected", "timeout", "notOk", "bodyThrew"}
    /\ exTool.exited
    /\ exTool.code = 0
    /\ firstRecord(exTool.lines) /= 0
    /\ exTool.lines[firstRecord(exTool.lines)].formatsKind /= "notArray"

\* C6: when the fast-path probe fails and the tool exits zero with a valid
\* record, the call resolves with the quality list extractQualities builds
\* from the formats that record declares.
C6_ToolLadderAfterProbeFailure ==
    C6_Case =>
        LET rec == exTool.lines[firstRecord(exTool.lines)]
        IN  /\ exResult.state = "resolved"
            /\ exResult.value.availableQualities =
                  extractQualities(IF rec.formatsKind = "array" THEN rec.formats ELSE <<>>)

\* the probe timed out, the tool declared real streams, and the list that
\* came back is none of the fixed ladders
C6_Witness ==
    /\ C6_Case
    /\ exProbe = "timeout"
    /\ exResult.state = "resolved"
    /\ Len(exResult.value.availableQualities) > 1
    /\ exResult.value.availableQualities \notin GenericLadders

(***************************************************************************)
(* VideoExtractorService.generateDownloadLink                              *)
(***************************************************************************)

\* a selector that asks for anything first
getFormatSelector_AnythingFirst(quality, url) ==
    "best/best[ext=mp4]/best[height<=1080]"

\* getFormatSelector(quality, url)
getFormatSelector(quality, url) ==
    LET base == "best[ext=mp4][protocol^=http]/best[protocol^=http]/best"
        loose == IF Includes(quality, "1080")
                 THEN "best[height<=1080][ext=mp4][protocol^=http]/" \o base
                 ELSE IF Includes(quality, "720")
                 THEN "best[height<=720][ext=mp4][protocol^=http]/" \o base
                 ELSE IF Includes(quality, "480")
                 THEN "best[height<=480][ext=mp4][protocol^=http]/" \o base
                 ELSE base
        Ceiling(h) == "best[height<=" \o h \o "][ext=mp4][protocol^=http]/best[height<="
                          \o h \o "]/best[ext=mp4]/best"
    IN  IF Includes(url, "tiktok.com") THEN loose
        ELSE IF Includes(url, "instagram.com") \/ Includes(url, "pinterest.com")
                \/ Includes(url, "pin.it") THEN loose
        ELSE IF Includes(quality, "2160") \/ Includes(quality, "4K") THEN Ceiling("2160")
        ELSE IF Includes(quality, "1440") \/ Includes(quality, "2K") THEN Ceiling("1440")
        ELSE IF Includes(quality, "1080") THEN Ceiling("1080")
        ELSE IF Includes(quality, "720") THEN Ceiling("720")
        ELSE IF Includes(quality, "480") THEN Ceiling("480")
        ELSE IF Includes(quality, "360") THEN Ceiling("360")
        ELSE IF Includes(quality, "240") THEN Ceiling("240")
        ELSE "best[ext=mp4][protocol^=http]/best"

\* what a spawned tool process is asked to do
ToolArgs(mode, selector, generic) ==
    [mode |-> mode, selector |-> selector, generic |-> generic]

\* args of the first process: audio extraction for mp3, else the selector
linkArgs(url, quality, format) ==
    IF format = "mp3"
    THEN ToolArgs("audio", "", FALSE)
    ELSE ToolArgs("video", getFormatSelector(quality, url), FALSE)

\* retryArgs: '--format', 'best/bestvideo+bestaudio'
retryArgs == ToolArgs("video", "best/bestvideo+bestaudio", FALSE)

\* fallbackArgs: '--force-generic-extractor', '-f', 'best[ext=mp4]/best'
fallbackArgs == ToolArgs("video", "best[ext=mp4]/best", TRUE)

sampleUrl == "https://commondatastorage.googleapis.com/gtv-videos-bucket/sample/BigBuckBunny.mp4"

\* output.trim().split('\n')[0]
firstLine(lines) == IF lines = <<>> THEN "" ELSE lines[1]

\* output.trim() of the whole stdout
RECURSIVE joinLines(_)
joinLines(lines) ==
    IF lines = <<>> THEN ""
    ELSE IF Len(lines) = 1 THEN lines[1]
    ELSE lines[1] \o "\n" \o joinLines(Tail(lines))

pinterestUrl(url) == Includes(url, "pinterest.com") \/ Includes(url, "pin.it")

demoUrlPlatform(url) == Includes(url, "tiktok.com") \/ Includes(url, "instagram.com")

\* /Failed to parse JSON/i.test(e) || /JSONDecodeError/i.test(e)
jsonParseError(errorOutput) ==
    \/ Includes(toLowerCase(errorOutput), "failed to parse json")
    \/ Includes(toLowerCase(errorOutput), "jsondecodeerror")

\* /Requested format is not available/i.test(errorOutput)
formatUnavailable(errorOutput) ==
    Includes(toLowerCase(errorOutput), "requested format is not available")

\* a close handler that retries whenever the first process printed nothing
firstCloseBranch_RetryOnEmpty(url, exit) ==
    IF firstLine(exit.lines) = "" THEN "retry" ELSE "settle"

\* which branch the close handler of the first process takes
firstCloseBranch(url, exit) ==
    IF exit.code /= 0
    THEN IF pinterestUrl(url) /\ jsonParseError(exit.stderr) THEN "fallback"
         ELSE IF formatUnavailable(exit.stderr) THEN "retry"
         ELSE "settle"
    ELSE "settle"

\* a close handler that answers every failed run with the sample URL
firstCloseOutcome_Sample(url, exit) ==
    IF exit.code /= 0 THEN Fulfilled(sampleUrl)
    ELSE IF firstLine(exit.lines) = ""
         THEN Rejected(<<"No download URL returned from yt-dlp">>)
         ELSE Fulfilled(firstLine(exit.lines))

\* how the close handler of the first process settles the promise when it
\* spawns nothing
firstCloseOutcome(url, exit) ==
    IF exit.code /= 0
    THEN IF demoUrlPlatform(url) THEN Fulfilled(sampleUrl)
         ELSE IF authRequired(exit.stderr) THEN Fulfilled(sampleUrl)
         ELSE Rejected(<<"Download link generation failed: ", exit.stderr>>)
    ELSE IF firstLine(exit.lines) = ""
         THEN Rejected(<<"No download URL returned from yt-dlp">>)
         ELSE Fulfilled(firstLine(exit.lines))

\* close handler of the Pinterest fallback process
fallbackCloseOutcome(exit) ==
    IF exit.code = 0 /\ joinLines(exit.lines) /= ""
    THEN Fulfilled(joinLines(exit.lines))
    ELSE Fulfilled(sampleUrl)

\* a retry handler that hands back what the first process printed
retryCloseOutcome_FirstOutput(url, exit, errorOutput, firstOut) ==
    IF firstOut /= "" THEN Fulfilled(firstOut) ELSE Fulfilled(sampleUrl)

\* close handler of the retry process
retryCloseOutcome(url, exit, errorOutput, firstOut) ==
    IF exit.code = 0
    THEN IF firstLine(exit.lines) /= ""
         THEN Fulfilled(firstLine(exit.lines))
         ELSE Rejected(<<"Retry succeeded but no URL returned">>)
    ELSE IF demoUrlPlatform(url) THEN Fulfilled(sampleUrl)
    ELSE Rejected(<<"Download link generation failed after retry: ",
                    OrElse(exit.stderr, errorOutput)>>)

\* media URLs the tool can print
UrlA == "https://cdn.example.net/v/abc.mp4?sig=1"
UrlB == "https://cdn.example.net/hls/xyz"
UrlC == "https://cdn.example.net/v/abc.webm"
UrlD == "https://cdn.example.net/v/abc.matroska"

FormatNaText == "ERROR: [youtube] abc123: Requested format is not available"
JsonErrText  == "ERROR: [Pinterest] 1: Failed to parse JSON"

LinkStderrTexts ==
    { "", FormatNaText, JsonErrText, JsonErrText \o "\n" \o FormatNaText,
      "ERROR: [youtube] abc123: Sign in to confirm you are not a bot",
      "ERROR: Unable to download webpage" }

LinkExits ==
    {ToolExit(0, l, "") : l \in {<<>>, <<UrlA>>, <<UrlB, UrlA>>, <<UrlC>>, <<UrlD>>}}
        \cup {ToolExit(1, <<>>, e) : e \in LinkStderrTexts}
        \cup {ToolExit(1, <<UrlA>>, FormatNaText)}

\* generateDownloadLink(url, quality, format) up to `spawn`
LinkCall(url, quality, format) ==
    /\ lkPc' = "proc1"
    /\ lkSpawned' = <<linkArgs(url, quality, format)>>
    /\ lkExits' = <<>>
    /\ lkResult' = Pending

\* ytDlp.on('close') of the first process
LinkFirstClose ==
    /\ lkPc = "proc1"
    /\ \E exit \in LinkExits :
          /\ lkExits' = <<exit>>
          /\ CASE firstCloseBranch(stReq.url, exit) = "fallback" ->
                    /\ lkSpawned' = Append(lkSpawned, fallbackArgs)
                    /\ lkPc' = "fallback"
                    /\ UNCHANGED lkResult
               [] firstCloseBranch(stReq.url, exit) = "retry" ->
                    /\ lkSpawned' = Append(lkSpawned, retryArgs)
                    /\ lkPc' = "retry"
                    /\ UNCHANGED lkResult
               [] OTHER ->
                    /\ lkResult' = Settle(lkResult, firstCloseOutcome(stReq.url, exit))
                    /\ lkPc' = "done"
                    /\ UNCHANGED lkSpawned
    /\ UNCHANGED stVars
    /\ StreamFrame

\* ytDlp.on('error'): the first process could not be started
LinkSpawnError ==
    /\ lkPc = "proc1"
    /\ lkResult' = Settle(lkResult, Rejected(<<"yt-dlp execution failed: ", "spawn yt-dlp ENOENT">>))
    /\ lkPc' = "proc1Errored"
    /\ UNCHANGED <<lkSpawned, lkExits>>
    /\ UNCHANGED stVars
    /\ StreamFrame

\* ytDlp.on('close') after the spawn error: negative code, nothing printed
LinkCloseAfterError ==
    /\ lkPc = "proc1Errored"
    /\ LET exit == ToolExit(-2, <<>>, "")
       IN  /\ lkExits' = <<exit>>
           /\ lkResult' = Settle(lkResult, firstCloseOutcome(stReq.url, exit))
    /\ lkPc' = "done"
    /\ UNCHANGED lkSpawned
    /\ UNCHANGED stVars
    /\ StreamFrame

\* fallbackProc.on('close')
LinkFallbackClose ==
    /\ lkPc = "fallback"
    /\ \E exit \in LinkExits :
          /\ lkExits' = Append(lkExits, exit)
          /\ lkResult' = Settle(lkResult, fallbackCloseOutcome(exit))
    /\ lkPc' = "done"
    /\ UNCHANGED lkSpawned
    /\ UNCHANGED stVars
    /\ StreamFrame

\* retryProc.on('close')
LinkRetryClose ==
    /\ lkPc = "retry"
    /\ \E exit \in LinkExits :
          /\ lkExits' = Append(lkExits, exit)
          /\ lkResult' = Settle(lkResult,
                retryCloseOutcome(stReq.url, exit, lkExits[1].stderr,
                                  firstLine(lkExits[1].lines)))
    /\ lkPc' = "done"
    /\ UNCHANGED lkSpawned
    /\ UNCHANGED stVars
    /\ StreamFrame

(***************************************************************************)
(* GET /api/stream-video                                                   *)
(***************************************************************************)

AlnumChars ==
    {SubSeq(UpperLetters, i, i) : i \in 1..Len(UpperLetters)}
        \cup {SubSeq(LowerLetters, i, i) : i \in 1..Len(LowerLetters)}
        \cup DigitChars

\* characters the class \s matches (of those a title is drawn from here)
WhitespaceChars == {" ", "\t", "\n", "\r", "\f"}

\* title.replace(/[^a-zA-Z0-9\s]/g, '_')
RECURSIVE sanitizeTitle(_)
sanitizeTitle(t) ==
    IF Len(t) = 0 THEN ""
    ELSE IF Len(t) = 1
    THEN (IF t \in AlnumChars \cup WhitespaceChars THEN t ELSE "_")
    ELSE LET half == Len(t) \div 2
         IN  sanitizeTitle(SubSeq(t, 1, half)) \o sanitizeTitle(SubSeq(t, half + 1, Len(t)))

\* a handler that never looks the title up
baseNameOf_Video(cache) == "video"

\* const baseName = videoInfo ? sanitized title : 'video'
baseNameOf(cache) == IF cache.cached THEN sanitizeTitle(cache.title) ELSE "video"

\* index of the first occurrence of t in s at or after position from (0: none)
IndexFrom(s, t, from) ==
    LET hits == {i \in from..(Len(s) - Len(t) + 1) : SubSeq(s, i, i + Len(t) - 1) = t}
    IN  IF hits = {} THEN 0 ELSE CHOOSE i \in hits : \A j \in hits : i <= j

\* new URL(u).pathname
pathnameOf(u) ==
    LET scheme == IndexFrom(u, "://", 1)
        start == IndexFrom(u, "/", scheme + 3)
        q == IndexFrom(u, "?", 1)
        h == IndexFrom(u, "#", 1)
        stop == IF q = 0 /\ h = 0 THEN Len(u) + 1
                ELSE IF q = 0 THEN h ELSE IF h = 0 THEN q
                ELSE IF q < h THEN q ELSE h
    IN  IF start = 0 \/ start >= stop THEN "/" ELSE SubSeq(u, start, stop - 1)

AllAlnum(t) == \A i \in 1..Len(t) : SubSeq(t, i, i) \in AlnumChars

\* urlPath.match(/\.([a-zA-Z0-9]+)(?:$|\?)/): group 1 lower-cased, "" for
\* no match
extFromPath(urlPath) ==
    LET dots == {i \in 1..Len(urlPath) :
                    /\ SubSeq(urlPath, i, i) = "."
                    /\ i < Len(urlPath)
                    /\ AllAlnum(SubSeq(urlPath, i + 1, Len(urlPath)))}
    IN  IF dots = {} THEN ""
        ELSE LET i == CHOOSE i \in dots : \A j \in dots : i <= j
             IN  toLowerCase(SubSeq(urlPath, i + 1, Len(urlPath)))

\* a filename whose extension is always the requested container
finalExt_FormatOnly(actualDownloadUrl, upstreamType, format) == format

\* the extension of the download's filename on the direct path
finalExt(actualDownloadUrl, upstreamType, format) ==
    LET fromPath == extFromPath(pathnameOf(actualDownloadUrl))
        fromType == IF Includes(upstreamType, "audio") THEN "mp3"
                    ELSE IF Includes(upstreamType, "mp4") THEN "mp4"
                    ELSE format
    IN  IF fromPath /= "" /\ Len(fromPath) <= 5 THEN fromPath ELSE fromType

\* a decision that honours only the format and the explicit flag
wantsTranscode_FlagOnly(req) ==
    req.format = "mp3" \/ toLowerCase(req.compatible) \in {"1", "true"}

\* the compatibility decision: transcode for mp3, for compatible=1/true, and
\* for TikTok video unless compatible=0/false
wantsTranscode(req) ==
    LET compatParam == toLowerCase(req.compatible)
        requestedCompat == compatParam = "1" \/ compatParam = "true"
        disableCompat == compatParam = "0" \/ compatParam = "false"
        isTikTok == Includes(req.url, "tiktok.com")
        compatible == (requestedCompat /\ ~disableCompat)
                        \/ (~disableCompat /\ isTikTok /\ req.format /= "mp3")
    IN  req.format = "mp3" \/ compatible

\* a handler that answers with an error whatever was sent before
canSendError_Unguarded(r) == TRUE

\* if (!res.headersSent)
canSendError(r) == ~r.headersSent

\* res.status(code).json({ error }): the headers set so far go out with it
jsonError(r, code, message, client) ==
    [r EXCEPT !.headersSent = TRUE, !.status = code, !.body = "json",
              !.error = message, !.ended = TRUE,
              !.headers.ContentType = "application/json",
              !.headers.ContentLength = "json",
              !.received = (client = "connected")]

\* a guarded error answer of a callback or of the catch block
SendError(code, message) ==
    IF canSendError(res)
    THEN /\ res' = jsonError(res, code, message, stClient)
         /\ stErrorWrites' = Append(stErrorWrites, res.headersSent)
    ELSE UNCHANGED <<res, stErrorWrites>>

\* `fileDownloadToken=${token}; Path=/; SameSite=Lax` when a token came
cookieHeader(token) ==
    IF token /= "" THEN "fileDownloadToken=" \o token \o "; Path=/; SameSite=Lax" ELSE ""

UpstreamGet(url, range) == [url |-> url, range |-> range]

\* a direct fetch that always asks upstream for the whole file
forwardedRange_Whole(clientRange) == "bytes=0-"

\* ...(clientRange ? { 'Range': clientRange } : {})
forwardedRange(clientRange) == clientRange

\* a direct path that advertises range support on every response
directHeaders_AlwaysRanges(r, req, cache, actualDownloadUrl, up) ==
    [r EXCEPT !.headers.ContentType =
                    IF up.contentType /= "" THEN up.contentType
                    ELSE IF req.format = "mp3" THEN "audio/mpeg" ELSE "video/mp4",
              !.headers.ContentDisposition =
                    "attachment; filename=\"" \o baseNameOf(cache) \o "."
                        \o finalExt(actualDownloadUrl,
                                    IF up.contentType /= "" THEN up.contentType
                                    ELSE IF req.format = "mp3" THEN "audio/mpeg"
                                    ELSE "video/mp4", req.format) \o "\"",
              !.headers.ContentLength =
                    IF up.contentLength /= "" THEN up.contentLength
                    ELSE r.headers.ContentLength,
              !.headers.AcceptRanges = "bytes"]

\* the response headers the direct path sets from the upstream response
directHeaders(r, req, cache, actualDownloadUrl, up) ==
    LET upstreamType == IF up.contentType /= "" THEN up.contentType
                        ELSE IF req.format = "mp3" THEN "audio/mpeg" ELSE "video/mp4"
        filename == baseNameOf(cache) \o "."
                        \o finalExt(actualDownloadUrl, upstreamType, req.format)
    IN  [r EXCEPT !.headers.ContentType = upstreamType,
                  !.headers.ContentDisposition =
                        "attachment; filename=\"" \o filename \o "\"",
                  !.headers.ContentLength =
                        IF up.contentLength /= "" THEN up.contentLength
                        ELSE r.headers.ContentLength,
                  !.headers.AcceptRanges =
                        IF req.range /= "" THEN "bytes" ELSE r.headers.AcceptRanges]

\* the response headers the transcode path sets before it spawns the tool
transcodeHeaders(r, req, cache) ==
    LET ext == IF req.format = "mp3" THEN "mp3" ELSE "mp4"
    IN  [r EXCEPT !.headers.ContentDisposition =
                        "attachment; filename=\"" \o baseNameOf(cache) \o "." \o ext \o "\"",
                  !.headers.ContentType =
                        IF req.format = "mp3" THEN "audio/mpeg" ELSE "video/mp4",
                  !.headers.SetCookie = cookieHeader(req.token)]

\* first bytes written to the response by a pipe: the headers go out
mediaWrite(r, client, n) ==
    [r EXCEPT !.headersSent = TRUE, !.body = "media", !.bytes = r.bytes + n,
              !.received = IF r.headersSent THEN r.received ELSE client = "connected"]

MaxChunks == 2

StreamUrls ==
    { "https://youtu.be/abc123", "https://www.tiktok.com/@u/video/1",
      "https://pin.it/abc" }

StreamQualities == {"", "1080p HD"}

Request(url, quality, format, compatible, token, range) ==
    [url |-> url, quality |-> quality, format |-> format,
     compatible |-> compatible, token |-> token, range |-> range]

\* values of the `compatible` query parameter
CompatFlags == {"", "1", "0", "true", "false"}

StreamRequests ==
    { Request(u, q, f, c, t, r) :
        u \in StreamUrls, q \in StreamQualities, f \in {"mp4", "mp3"},
        c \in CompatFlags, t \in {"", "tok1"}, r \in {"", "bytes=100-"} }

CacheStates ==
    {NoCache, [cached |-> TRUE, title |-> "Example"],
     [cached |-> TRUE, title |-> "My\tClip #1"]}

UpstreamAnswer(ok, status, len, type, hasBody) ==
    [ok |-> ok, status |-> status, contentLength |-> len, contentType |-> type,
     hasBody |-> hasBody]

UpstreamAnswers ==
    { UpstreamAnswer(TRUE, 200, "4096", "video/mp4", TRUE),
      UpstreamAnswer(TRUE, 206, "3996", "video/mp4", TRUE),
      UpstreamAnswer(TRUE, 200, "", "", TRUE),
      UpstreamAnswer(TRUE, 200, "0", "application/octet-stream", TRUE),
      UpstreamAnswer(TRUE, 200, "4096", "audio/mp4", FALSE),
      UpstreamAnswer(FALSE, 403, "9", "text/html", TRUE) }

StreamInit ==
    /\ stReq \in StreamRequests
    /\ stCache \in CacheStates
    /\ stPc = "received"
    /\ res = NewResponse
    /\ stErrorWrites = <<>> /\ stUpstream = <<>> /\ stUpResp = NoUpstreamResponse
    /\ stProc = "none" /\ stFile = "none" /\ stRead = "none"
    /\ stClient = "connected"
    /\ LinkOff
    /\ DetectOff /\ MergeOff /\ ExtractOff /\ RouteOff /\ TempOff /\ HandshakeOff

\* a handler that goes on whenever generateDownloadLink has settled
linkResolved_Settled(promise) == promise.state /= "pending"

\* `await generateDownloadLink(...)` returned a URL (a rejection throws)
linkResolved(promise) == promise.state = "resolved"

\* entry of the handler up to `await generateDownloadLink`
StreamStart ==
    /\ stPc = "received"
    /\ IF stReq.url = "" \/ stReq.quality = "" \/ stReq.format = ""
       THEN /\ res' = jsonError(res, 400, <<"Missing required parameters">>, stClient)
            /\ stErrorWrites' = Append(stErrorWrites, res.headersSent)
            /\ stPc' = "finished"
            /\ UNCHANGED lkVars
       ELSE /\ LinkCall(stReq.url, stReq.quality, stReq.format)
            /\ stPc' = "resolving"
            /\ UNCHANGED <<res, stErrorWrites>>
    /\ UNCHANGED <<stReq, stCache, stUpstream, stUpResp, stProc, stFile, stRead, stClient>>
    /\ StreamFrame

\* generateDownloadLink rejected: the catch block answers
StreamLinkFailed ==
    /\ stPc = "resolving"
    /\ lkResult.state = "rejected"
    /\ SendError(500, lkResult.reason)
    /\ stPc' = "finished"
    /\ UNCHANGED <<stReq, stCache, stUpstream, stUpResp, stProc, stFile, stRead, stClient>>
    /\ UNCHANGED lkVars
    /\ StreamFrame

\* generateDownloadLink resolved and the request goes to the transcode path:
\* cookie and download headers are set, the temp path is chosen, the tool is
\* spawned and the handler returns
StreamTranscode ==
    /\ stPc = "resolving"
    /\ linkResolved(lkResult)
    /\ wantsTranscode(stReq)
    /\ res' = transcodeHeaders(res, stReq, stCache)
    /\ stProc' = "running"
    /\ stFile' = "absent"
    /\ stPc' = "transcoding"
    /\ UNCHANGED <<stReq, stCache, stErrorWrites, stUpstream, stUpResp, stRead, stClient>>
    /\ UNCHANGED lkVars
    /\ StreamFrame

\* generateDownloadLink resolved and the request goes to the direct path:
\* the cookie header is set and the first upstream GET is issued
StreamDirectFetch ==
    /\ stPc = "resolving"
    /\ linkResolved(lkResult)
    /\ ~wantsTranscode(stReq)
    /\ res' = [res EXCEPT !.headers.SetCookie = cookieHeader(stReq.token)]
    /\ stUpstream' = <<UpstreamGet(lkResult.value, forwardedRange(stReq.range))>>
    /\ stPc' = "fetch1"
    /\ UNCHANGED <<stReq, stCache, stErrorWrites, stUpResp, stProc, stFile, stRead, stClient>>
    /\ UNCHANGED lkVars
    /\ StreamFrame

\* await fetch(...) rejects (connection refused, reset, DNS): node-fetch's
\* FetchError message names the requested URL; the catch block answers
FetchRejects ==
    /\ stPc \in {"fetch1", "fetch2"}
    /\ SendError(500, <<"request to ", stUpstream[Len(stUpstream)].url,
                        " failed, reason: ", "connect ECONNREFUSED">>)
    /\ stPc' = "finished"
    /\ UNCHANGED <<stReq, stCache, stUpstream, stUpResp, stProc, stFile, stRead, stClient>>
    /\ UNCHANGED lkVars
    /\ StreamFrame

\* the code after the last fetch: non-OK throws, else the headers are set
\* and the body is piped (a missing body throws)
AfterFetch(up) ==
    IF ~up.ok
    THEN /\ SendError(500, <<"Failed to fetch video: ", ToString(up.status)>>)
         /\ stPc' = "finished"
         /\ UNCHANGED stRead
    ELSE IF ~up.hasBody
    THEN /\ LET withHeaders == directHeaders(res, stReq, stCache, lkResult.value, up)
            IN  IF canSendError(withHeaders)
                THEN /\ res' = jsonError(withHeaders, 500, <<"No video data received">>, stClient)
                     /\ stErrorWrites' = Append(stErrorWrites, res.headersSent)
                ELSE /\ res' = withHeaders
                     /\ UNCHANGED stErrorWrites
         /\ stPc' = "finished"
         /\ UNCHANGED stRead
    ELSE /\ res' = directHeaders(res, stReq, stCache, lkResult.value, up)
         /\ stPc' = "relayBody"
         /\ stRead' = "open"
         /\ UNCHANGED stErrorWrites

\* a proxy that retries whatever the caller's Range header
needsRangeRetry_AnyRange(clientRange, up) ==
    up.ok /\ (up.contentLength = "" \/ up.contentLength = "0")

\* !clientRange && videoResponse.ok && (!initialLen || initialLen === '0')
needsRangeRetry(clientRange, up) ==
    clientRange = "" /\ up.ok /\ (up.contentLength = "" \/ up.contentLength = "0")

\* the first upstream GET is answered
FetchAnswers ==
    /\ stPc = "fetch1"
    /\ \E up \in UpstreamAnswers :
          /\ stUpResp' = up
          /\ IF needsRangeRetry(stReq.range, up)
             THEN /\ stUpstream' = Append(stUpstream, UpstreamGet(lkResult.value, "bytes=0-"))
                  /\ stPc' = "fetch2"
                  /\ UNCHANGED <<res, stErrorWrites, stRead>>
             ELSE /\ AfterFetch(up)
                  /\ UNCHANGED stUpstream
    /\ UNCHANGED <<stReq, stCache, stProc, stFile, stClient>>
    /\ UNCHANGED lkVars
    /\ StreamFrame

\* the retried upstream GET (Range: bytes=0-) is answered
RetryFetchAnswers ==
    /\ stPc = "fetch2"
    /\ \E up \in UpstreamAnswers :
          /\ stUpResp' = up
          /\ AfterFetch(up)
    /\ UNCHANGED <<stReq, stCache, stUpstream, stProc, stFile, stClient>>
    /\ UNCHANGED lkVars
    /\ StreamFrame

\* the external tool writes its output to the temp path while it runs
ToolWritesFile ==
    /\ stProc = "running"
    /\ stFile = "absent"
    /\ stFile' \in {"present", "empty"}
    /\ UNCHANGED <<stReq, stCache, stPc, res, stErrorWrites, stUpstream, stUpResp,
                   stProc, stRead, stClient>>
    /\ UNCHANGED lkVars
    /\ StreamFrame

\* proc.on('error'): the tool could not be started
ProcError ==
    /\ stProc = "running"
    /\ stFile = "absent"
    /\ SendError(500, <<"Failed to start video processing">>)
    /\ stProc' = "errored"
    /\ UNCHANGED <<stReq, stCache, stPc, stUpstream, stUpResp, stFile, stRead, stClient>>
    /\ UNCHANGED lkVars
    /\ StreamFrame

\* proc.on('close') after the spawn error: negative code
ProcCloseAfterError ==
    /\ stProc = "errored"
    /\ SendError(500, <<"Video processing failed with code ", "-2">>)
    /\ stProc' = "closed"
    /\ stPc' = "finished"
    /\ UNCHANGED <<stReq, stCache, stUpstream, stUpResp, stFile, stRead, stClient>>
    /\ UNCHANGED lkVars
    /\ StreamFrame

\* proc.on('close') with code !== 0
ProcCloseFail ==
    /\ stProc = "running"
    /\ SendError(500, <<"Video processing failed with code ", "1">>)
    /\ stProc' = "closed"
    /\ stPc' = "finished"
    /\ UNCHANGED <<stReq, stCache, stUpstream, stUpResp, stFile, stRead, stClient>>
    /\ UNCHANGED lkVars
    /\ StreamFrame

\* a close handler that declares no length
statContentLength_None(r, file) == r

\* try { stat = fs.statSync(outPath); if (stat && stat.size)
\*       res.setHeader('Content-Length', String(stat.size)) } catch {}
statContentLength(r, file) ==
    IF file = "present"
    THEN [r EXCEPT !.headers.ContentLength = ToString(MaxChunks)]
    ELSE r

\* proc.on('close') with code 0: Content-Length from statSync when the file
\* has a size, then createReadStream(outPath) is piped into the response
ProcCloseOk ==
    /\ stProc = "running"
    /\ res' = statContentLength(res, stFile)
    /\ stRead' = "open"
    /\ stProc' = "closed"
    /\ stPc' = "relayFile"
    /\ UNCHANGED <<stReq, stCache, stErrorWrites, stUpstream, stUpResp, stFile, stClient>>
    /\ UNCHANGED lkVars
    /\ StreamFrame

\* the piped source has data the response can take
sourceReadable ==
    /\ stRead = "open"
    /\ stClient = "connected"
    /\ stPc = "relayFile" => stFile \in {"present", "empty"}

\* a chunk of the source is written to the response
RelayChunk ==
    /\ sourceReadable
    /\ res.bytes < MaxChunks
    /\ stPc = "relayFile" => stFile = "present"
    /\ res' = mediaWrite(res, stClient, 1)
    /\ UNCHANGED <<stReq, stCache, stPc, stErrorWrites, stUpstream, stUpResp,
                   stProc, stFile, stRead, stClient>>
    /\ UNCHANGED lkVars
    /\ StreamFrame

\* the source ends: pipe() ends the response
RelayEnd ==
    /\ sourceReadable
    /\ stPc = "relayFile" => res.bytes = (IF stFile = "present" THEN MaxChunks ELSE 0)
    /\ res' = [mediaWrite(res, stClient, 0) EXCEPT !.ended = TRUE]
    /\ stRead' = "ended"
    /\ stPc' = IF stPc = "relayBody" THEN "finished" ELSE stPc
    /\ UNCHANGED <<stReq, stCache, stErrorWrites, stUpstream, stUpResp,
                   stProc, stFile, stClient>>
    /\ UNCHANGED lkVars
    /\ StreamFrame

\* the source emits 'error': the temp-file handler answers if it still can
\* and unlinks the file; the upstream-body handler only logs
RelayError ==
    /\ stRead = "open"
    /\ stPc = "relayFile" => (stFile = "absent" \/ stClient = "connected")
    /\ IF stPc = "relayFile"
       THEN /\ SendError(500, <<"Failed to read processed file">>)
            /\ stFile' = "absent"
       ELSE UNCHANGED <<res, stErrorWrites, stFile>>
    /\ stRead' = "errored"
    /\ UNCHANGED <<stReq, stCache, stPc, stUpstream, stUpResp, stProc, stClient>>
    /\ UNCHANGED lkVars
    /\ StreamFrame

\* read.on('close'): the temp file is unlinked
ReadClose ==
    /\ stPc = "relayFile"
    /\ stRead \in {"ended", "errored"}
    /\ stFile' = "absent"
    /\ stRead' = "closed"
    /\ stPc' = "finished"
    /\ UNCHANGED <<stReq, stCache, res, stErrorWrites, stUpstream, stUpResp,
                   stProc, stClient>>
    /\ UNCHANGED lkVars
    /\ StreamFrame

\* the caller disconnects or cancels before the response has ended: the
\* response is closed and pipe() stops writing to it
ClientDisconnect ==
    /\ stClient = "connected"
    /\ stPc \notin {"off", "received", "finished"}
    /\ ~res.ended
    /\ stClient' = "gone"
    /\ UNCHANGED <<stReq, stCache, stPc, res, stErrorWrites, stUpstream, stUpResp,
                   stProc, stFile, stRead>>
    /\ UNCHANGED lkVars
    /\ StreamFrame

Next ==
    \/ StreamStart
    \/ LinkFirstClose
    \/ LinkSpawnError
    \/ LinkCloseAfterError
    \/ LinkFallbackClose
    \/ LinkRetryClose
    \/ StreamLinkFailed
    \/ StreamTranscode
    \/ StreamDirectFetch
    \/ FetchRejects
    \/ FetchAnswers
    \/ RetryFetchAnswers
    \/ ToolWritesFile
    \/ ProcError
    \/ ProcCloseAfterError
    \/ ProcCloseFail
    \/ ProcCloseOk
    \/ RelayChunk
    \/ RelayEnd
    \/ RelayError
    \/ ReadClose
    \/ ClientDisconnect

Spec == StreamInit /\ [][Next]_vars

(***************************************************************************)
(* C1 - C4, C8 - C10: the stream request                                   *)
(***************************************************************************)

\* the request took the direct path and its upstream body was piped
directRelay == stProc = "none" /\ stRead /= "none"

\* nothing of the request is running any more: the tool has exited, and the
\* response has ended or the caller is gone, and no read stream is about to
\* emit 'close'
requestOver ==
    /\ stProc = "closed"
    /\ res.ended \/ stClient = "gone"
    /\ stRead \in {"none", "closed"} \/ (stRead = "open" /\ stClient = "gone")

\* C1: once a transcode request is over, whichever way it ended (relay
\* complete, tool failure, spawn error, read error, caller gone), its temp
\* file does not exist.
C1_TempFileRemoved ==
    requestOver => stFile \notin {"present", "empty"}

\* C2: an error payload is written only while nothing of the response has
\* been sent, no error payload follows media bytes, and a request gets at
\* most one response.
C2_ErrorOnlyBeforeFirstByte ==
    /\ \A i \in 1..Len(stErrorWrites) : stErrorWrites[i] = FALSE
    /\ Len(stErrorWrites) <= 1
    /\ res.body = "json" => res.bytes = 0

\* a read error hit the temp file after media bytes had gone out, and the
\* handler wrote no error payload
C2_Witness ==
    /\ stPc = "relayFile"
    /\ stRead = "errored"
    /\ res.body = "media"
    /\ res.bytes > 0
    /\ stErrorWrites = <<>>

\* the state of the proxy's state machine the handler is in
streamState ==
    IF res.body = "json" THEN "ERROR"
    ELSE IF res.ended THEN "DONE"
    ELSE IF stPc = "resolving" THEN "RESOLVING"
    ELSE IF stPc \in {"fetch1", "fetch2"} THEN "DIRECT_FETCH"
    ELSE IF stPc = "transcoding" THEN "TRANSCODE"
    ELSE IF stRead /= "none" THEN "RELAYING"
    ELSE "NEW"

StateOrder ==
    { <<"NEW", "RESOLVING">>, <<"NEW", "ERROR">>,
      <<"RESOLVING", "DIRECT_FETCH">>, <<"RESOLVING", "TRANSCODE">>,
      <<"RESOLVING", "ERROR">>,
      <<"DIRECT_FETCH", "RELAYING">>, <<"DIRECT_FETCH", "ERROR">>,
      <<"TRANSCODE", "RELAYING">>, <<"TRANSCODE", "ERROR">>,
      <<"RELAYING", "DONE">>, <<"RELAYING", "ERROR">> }

C3_Step ==
    /\ streamState' /= streamState => <<streamState, streamState'>> \in StateOrder
    /\ (streamState' = "ERROR" /\ streamState /= "ERROR") => ~res.headersSent
    /\ lkResult'.state = "rejected" => (stUpstream' = <<>> /\ stProc' = "none")

\* C3: a request only moves RESOLVING -> (DIRECT_FETCH | TRANSCODE) ->
\* RELAYING -> DONE; ERROR is absorbing and entered only before the first
\* byte; after a failed link resolution no upstream GET is issued and no
\* transcode process is spawned.
C3_StateOrder == [][C3_Step]_vars

\* link resolution failed and the request is in ERROR without any fetch or
\* subprocess
C3_Witness ==
    /\ lkResult.state = "rejected"
    /\ streamState = "ERROR"
    /\ stPc = "finished"
    /\ stUpstream = <<>> /\ stProc = "none"

\* the first process failed with the format-unavailable signature, the
\* generic-selector retry was spawned and exited zero with a URL
C4_Case ==
    /\ lkPc = "done"
    /\ Len(lkExits) = 2
    /\ Len(lkSpawned) >= 2
    /\ lkExits[1].code /= 0
    /\ lkExits[2].code = 0
    /\ firstLine(lkExits[2].lines) /= ""
    /\ lkSpawned[2] = retryArgs
    /\ formatUnavailable(lkExits[1].stderr)

\* C4: format-unavailable on the first attempt and success of the retry:
\* generateDownloadLink returns the URL the retry printed and has spawned
\* exactly two processes.
C4_RetryOnce ==
    C4_Case =>
        /\ lkResult = Fulfilled(firstLine(lkExits[2].lines))
        /\ Len(lkSpawned) = 2

\* the first process printed one URL before failing, the retry another
C4_Witness ==
    /\ C4_Case
    /\ firstLine(lkExits[1].lines) = UrlA
    /\ lkResult = Fulfilled(UrlB)

\* C8: on the direct path a caller's Range header goes upstream unchanged
\* (in the only GET issued), the response declares the content-length the
\* upstream declared for it, and carries Accept-Ranges: bytes.
C8_RangeForwarded ==
    (directRelay /\ stReq.range /= "") =>
        /\ Len(stUpstream) = 1
        /\ stUpstream[1].range = stReq.range
        /\ res.headers.ContentLength = stUpResp.contentLength
        /\ res.headers.AcceptRanges = "bytes"

\* a ranged request answered 206 by the upstream is being relayed
C8_Witness ==
    /\ directRelay
    /\ stReq.range = "bytes=100-"
    /\ stUpResp.status = 206
    /\ res.bytes > 0
    /\ res.headers.ContentLength = "3996"

HeaderNames == {"SetCookie", "ContentType", "ContentDisposition", "ContentLength",
                "AcceptRanges"}

\* C9: nothing the server sends (error body or headers) contains the media
\* URL that generateDownloadLink resolved.
C9_MediaUrlNeverSent ==
    (lkResult.state = "resolved" /\ res.headersSent) =>
        /\ \A i \in 1..Len(res.error) : ~Includes(res.error[i], lkResult.value)
        /\ \A h \in HeaderNames : ~Includes(res.headers[h], lkResult.value)

\* C10: the caller gets the fileDownloadToken cookie only with a response
\* whose body is the media being relayed, never with a request whose
\* transfer did not start.
C10_CookieMeansTransferStarted ==
    (res.headersSent /\ res.received /\ res.headers.SetCookie /= "") =>
        res.body = "media"

(***************************************************************************)
(* C11: routing of a stream request                                        *)
(***************************************************************************)

\* host of an absolute URL
hostOfUrl(u) ==
    LET start == IndexFrom(u, "://", 1) + 3
        slash == IndexFrom(u, "/", start)
    IN  SubSeq(u, start, IF slash = 0 THEN Len(u) ELSE slash - 1)

\* the request names a page of the TikTok site
tikTokRequest(req) ==
    hostOfUrl(req.url) = "tiktok.com" \/ EndsWith(hostOfUrl(req.url), ".tiktok.com")

\* the routing the decision table asks for
transcodeExpected(req) ==
    \/ req.format = "mp3"
    \/ req.compatible \in {"1", "true"}
    \/ tikTokRequest(req) /\ req.format /= "mp3" /\ req.compatible \notin {"0", "false"}

ScenarioUrl == "https://youtu.be/abc123"

\* the stream request of the scenario: 1080p HD, mp4, no compatibility flag,
\* title "Example" in the cache
scenarioRequest ==
    /\ stReq.url = ScenarioUrl
    /\ stReq.quality = "1080p HD" /\ stReq.format = "mp4" /\ stReq.compatible = ""
    /\ stCache = [cached |-> TRUE, title |-> "Example"]

\* what the scenario says of platform detection and of the fast-path probe
scenarioMetadata ==
    /\ detectPlatform(ScenarioUrl) = Resolved("YouTube")
    /\ probeResult("YouTube", "Example") = VideoInfo("Example", "YouTube", youtubeLadder)
    /\ Len(youtubeLadder) = 7

\* the path of the resolved media URL ends in .mp4
resolvedMp4 ==
    /\ lkResult.state = "resolved"
    /\ EndsWith(pathnameOf(lkResult.value), ".mp4")

\* C12 as stated: in the scenario the platform is YouTube, the probe gives
\* the 7-entry ladder, the request is never transcoded, every relayed
\* response is named Example.mp4, and upstream EOF ends the request in DONE.
C12_EndToEnd ==
    scenarioRequest =>
        /\ scenarioMetadata
        /\ stProc = "none"
        /\ directRelay =>
              res.headers.ContentDisposition = "attachment; filename=\"Example.mp4\""
        /\ (directRelay /\ stRead = "ended") => streamState = "DONE"

\* C12 amended: the same, with the download named Example.mp4 when the path
\* of the resolved media URL ends in .mp4.
C12_EndToEndMp4 ==
    scenarioRequest =>
        /\ scenarioMetadata
        /\ stProc = "none"
        /\ (directRelay /\ resolvedMp4) =>
              res.headers.ContentDisposition = "attachment; filename=\"Example.mp4\""
        /\ (directRelay /\ stRead = "ended") => streamState = "DONE"

\* the scenario ran to upstream EOF with every chunk relayed
C12_Witness ==
    /\ scenarioRequest
    /\ resolvedMp4
    /\ directRelay /\ stRead = "ended"
    /\ res.bytes = MaxChunks
    /\ res.headers.ContentDisposition = "attachment; filename=\"Example.mp4\""
    /\ streamState = "DONE"

(***************************************************************************)
(* C13: termination when the tool hangs                                    *)
(***************************************************************************)

\* The handler's own continuations run once they are enabled, the upstream
\* answers, a piped source delivers and ends, and a finished read stream
\* closes.  Nothing makes a tool process exit: the code sets no timer on a
\* spawned process and never kills one.
Fairness ==
    /\ WF_vars(StreamStart)
    /\ WF_vars(StreamLinkFailed)
    /\ WF_vars(StreamTranscode)
    /\ WF_vars(StreamDirectFetch)
    /\ WF_vars(FetchRejects \/ FetchAnswers)
    /\ WF_vars(RetryFetchAnswers)
    /\ WF_vars(RelayEnd \/ RelayError)
    /\ WF_vars(ReadClose)

SpecLive == StreamInit /\ [][Next]_vars /\ Fairness

\* C13: every call of generateDownloadLink settles and every transcode
\* request leaves the transcoding phase, whatever the tool process does:
\* a process that never exits is killed after a bounded wait.
C13_ToolCallsTerminate ==
    /\ (lkPc /= "off") ~> (lkResult.state /= "pending")
    /\ (stPc = "transcoding") ~> (stPc /= "transcoding")

(***************************************************************************)
(* C14: the caller disconnects                                             *)
(***************************************************************************)

\* C14: once the caller has gone, the request has no transcode process
\* running and no upstream body still open for reading.
C14_DisconnectAborts ==
    stClient = "gone" =>
        /\ stProc /= "running"
        /\ ~(directRelay /\ stRead = "open")

(***************************************************************************)
(* C18: classification of a failed tool run                                *)
(***************************************************************************)

\* the tool of the call ran and exited with a non-zero code
C18_Case ==
    /\ exPc = "done"
    /\ exTool.exited
    /\ exTool.code > 0

\* the URL is on TikTok, Instagram or Pinterest
restrictedSite(url) ==
    \E d \in {"tiktok.com", "instagram.com", "pinterest.com", "pin.it"} :
        hostOfUrl(url) = d \/ EndsWith(hostOfUrl(url), "." \o d)

\* stderr says that the platform wants a signed-in session
authSignature(e) ==
    Includes(e, "Sign in to confirm") \/ Includes(e, "ERROR: [youtube]")

\* the privacy/blocking signatures: 403, 401, login, forbidden, private,
\* unavailable, blocked
privacySignature(e) ==
    \/ Includes(e, "403") \/ Includes(e, "401")
    \/ \E k \in {"login", "forbidden", "private", "unavailable", "blocked"} :
          Includes(toLowerCase(e), k)

placeholderResult ==
    /\ exResult.state = "resolved"
    /\ Includes(exResult.value.title, "Demo Mode")

failurePropagated ==
    /\ exResult.state = "rejected"
    /\ Includes(exResult.reason, "Video extraction failed")
    /\ Includes(exResult.reason, exTool.stderr)

C19_Case ==
    /\ lkPc = "done"
    /\ lkExits /= <<>>
    /\ lkExits[1] \in LinkExits
    /\ lkExits[1].code /= 0

\* the promise resolved with the fixed sample media URL
sampleReturned == lkResult.state = "resolved" /\ lkResult.value = sampleUrl

\* no process the call spawned printed a URL with exit code 0
allAttemptsFailed ==
    \A i \in 1..Len(lkExits) :
        lkExits[i].code /= 0 \/ joinLines(lkExits[i].lines) = ""

\* the last process the call spawned exited non-zero
ladderExhausted == lkExits[Len(lkExits)].code /= 0

\* the promise rejected with a message that ends with stderr text of the tool
rejectedWithStderr ==
    /\ lkResult.state = "rejected"
    /\ Len(lkResult.reason) = 2
    /\ \E i \in 1..Len(lkExits) : lkResult.reason[2] = lkExits[i].stderr

\* the platforms the code treats as requiring authentication
authPlatformUrl(url) == demoUrlPlatform(url) \/ pinterestUrl(url)

\* the single process ended with a sign-in / YouTube error signature
signInSignature ==
    /\ Len(lkExits) = 1
    /\ authRequired(lkExits[1].stderr)

\* the generic-extractor fallback of a Pinterest URL was the last process
fallbackTaken == Len(lkSpawned) = 2 /\ lkSpawned[2] = fallbackArgs

\* C19 as stated: the sample media URL is returned only for a URL of a
\* platform that requires authentication and only after every process of
\* the ladder failed; for any other URL an exhausted ladder rejects with
\* a message carrying the tool's stderr
C19_SampleOnlyAuthPlatform ==
    C19_Case =>
        /\ sampleReturned => authPlatformUrl(stReq.url) /\ allAttemptsFailed
        /\ ~authPlatformUrl(stReq.url) /\ ladderExhausted => rejectedWithStderr

\* C19 amended: the sample media URL is returned only after every process
\* failed and only for a TikTok/Instagram URL, a failed Pinterest fallback,
\* or a single run whose stderr holds 'Sign in to confirm' or
\* 'ERROR: [youtube]'; any other exhausted ladder rejects with a message
\* carrying the tool's stderr
C19_SampleOnlyAuthPlatformOrSignIn ==
    C19_Case =>
        /\ sampleReturned =>
              /\ allAttemptsFailed
              /\ demoUrlPlatform(stReq.url) \/ fallbackTaken \/ signInSignature
        /\ /\ ladderExhausted
           /\ ~demoUrlPlatform(stReq.url) /\ ~fallbackTaken /\ ~signInSignature
           => rejectedWithStderr

\* a TikTok request whose first run and retry both failed got the sample URL
C19_Witness ==
    /\ C19_Case
    /\ demoUrlPlatform(stReq.url)
    /\ Len(lkExits) = 2
    /\ lkSpawned[2] = retryArgs
    /\ ladderExhausted
    /\ sampleReturned

(***************************************************************************)
(* C20: the tool invocations of an audio-only request                      *)
(***************************************************************************)

\* the args ask for '--extract-audio' and pass no '--format' / '-f' selector
audioExtraction(args) == args.mode = "audio" /\ args.selector = ""

\* C20: every process generateDownloadLink spawns for a format mp3 request,
\* the retry and the fallback included, runs in audio-extraction mode
\* without a video format selector
C20_AudioRequestsUseAudioMode ==
    stReq.format = "mp3" =>
        \A i \in 1..Len(lkSpawned) : audioExtraction(lkSpawned[i])

(***************************************************************************)
(* C21: an unresponsive probe endpoint                                     *)
(***************************************************************************)

\* what the event loop guarantees to extractVideoInfo: the executor runs,
\* and `await fetch` ends because the abort timer (2 - 5 s) rejects it when
\* no answer came.  The timer is cleared once the answer's headers are in,
\* so nothing bounds `await resp.json()` / `await resp.text()`; nothing
\* bounds the tool either.
ExtractFairness ==
    /\ WF_vars(ExtractStart)
    /\ WF_vars(ProbeFails \/ ProbeAnswersOk)

SpecExtractLive == ExtractInit /\ [][ExtractNext]_vars /\ ExtractFairness

\* C21: a call that issued a tier 1-2 probe gets past it, whatever the
\* endpoint does: it reaches the external tool (or settles from the probe's
\* answer) and never waits for the endpoint forever
C21_ProbeCannotBlockToolTier ==
    (exPc \in {"probe", "probeBody"}) ~> (exPc \in {"tool", "toolErrored", "done"})

(***************************************************************************)
(* C22: a URL of no supported platform                                     *)
(***************************************************************************)

\* the executor of extractVideoInfo has run
executorRan == exPc /= "called"

\* C22: once extractVideoInfo has run for a URL that holds no supported
\* domain, its promise is rejected with the unsupported-platform error
\* (which the route's catch turns into an error response)
C22_UnsupportedPlatformRejected ==
    executorRan /\ ~detectPlatform(exUrl).ok =>
        /\ exResult.state = "rejected"
        /\ exResult.reason = "Unsupported platform"

(***************************************************************************)
(* C23: the source of the relay errors                                     *)
(***************************************************************************)

\* the piped source (upstream body or temp-file read stream) emitted 'error'
sourceErrored ==
    /\ stPc \in {"relayBody", "relayFile"}
    /\ stRead = "errored"

\* the connection to the caller is closed
connectionClosed == res.ended \/ stClient = "gone"

\* C23: after the piped source of a relay has errored, the connection to
\* the caller gets closed
C23_SourceErrorClosesConnection == sourceErrored ~> connectionClosed

(***************************************************************************)
(* C24: the second upstream GET of the direct path                         *)
(***************************************************************************)

\* the step in which the first upstream GET is answered
firstAnswerStep == stPc = "fetch1" /\ stUpResp' /= NoUpstreamResponse

\* the step issues the second GET, with Range: bytes=0-
secondGetIssued ==
    /\ Len(stUpstream') = 2
    /\ stUpstream'[2] = UpstreamGet(stUpstream[1].url, "bytes=0-")

C24_Step ==
    /\ firstAnswerStep =>
          (secondGetIssued <=>
              /\ stReq.range = ""
              /\ stUpResp'.ok
              /\ stUpResp'.contentLength \in {"", "0"})
    /\ ~firstAnswerStep => stUpstream' = stUpstream \/ stUpstream = <<>>
    /\ Len(stUpstream') <= 2
    /\ stReq'.range /= "" => Len(stUpstream') <= 1

\* C24: the second upstream GET (Range: bytes=0-) is issued exactly when the
\* first answer is OK with a missing or zero content-length and the caller
\* sent no Range; no request makes more than two upstream GETs, and one that
\* carried a Range makes at most one
C24_RangeRetryOnce == [][C24_Step]_vars

\* a request without Range whose first answer had content-length 0 is
\* waiting for the answer to its second GET
C24_Witness ==
    /\ stPc = "fetch2"
    /\ stReq.range = ""
    /\ stUpResp.ok /\ stUpResp.contentLength = "0"
    /\ Len(stUpstream) = 2
    /\ stUpstream[2].range = "bytes=0-"

(***************************************************************************)
(* C25: the headers of a direct-path response                              *)
(***************************************************************************)

\* the response carries the content-type and content-length of the upstream
\* response that is relayed, where upstream sent them
mirrorsUpstream ==
    /\ stUpResp.contentType /= "" => res.headers.ContentType = stUpResp.contentType
    /\ stUpResp.contentLength /= "" => res.headers.ContentLength = stUpResp.contentLength

\* C25 as stated: every direct-path response mirrors the content-type and
\* content-length of the upstream response relayed and carries
\* Accept-Ranges, with or without a Range header in the request
C25_MirrorAndRanges ==
    directRelay =>
        /\ mirrorsUpstream
        /\ res.headers.AcceptRanges = "bytes"

\* C25 amended: every direct-path response mirrors the content-type and
\* content-length upstream sent (video/mp4 or audio/mpeg by format when
\* upstream sent no type, no Content-Length when upstream sent none), and
\* carries Accept-Ranges exactly when the request had a Range header
C25_MirrorAndRangesOnRange ==
    directRelay =>
        /\ mirrorsUpstream
        /\ stUpResp.contentType = "" =>
              res.headers.ContentType =
                  (IF stReq.format = "mp3" THEN "audio/mpeg" ELSE "video/mp4")
        /\ stUpResp.contentLength = "" => res.headers.ContentLength = ""
        /\ res.headers.AcceptRanges = "bytes" <=> stReq.range /= ""
        /\ res.headers.AcceptRanges \in {"", "bytes"}

\* a relay of the retried upstream response, whose length the caller got
C25_Witness ==
    /\ directRelay
    /\ Len(stUpstream) = 2
    /\ stUpResp.contentLength = "4096"
    /\ res.headers.ContentLength = "4096"
    /\ res.headers.ContentType = "video/mp4"
    /\ res.headers.AcceptRanges = ""

(***************************************************************************)
(* C26: the download filename of the direct path                           *)
(***************************************************************************)

\* the filename inside `attachment; filename="..."`
dispositionFilename ==
    LET h == res.headers.ContentDisposition
    IN  SubSeq(h, Len("attachment; filename=\"") + 1, Len(h) - 1)

\* base is title with every character outside keep replaced by '_'
sanitizedWith(base, title, keep) ==
    /\ Len(base) = Len(title)
    /\ \A i \in 1..Len(title) :
          SubSeq(base, i, i) =
              (IF SubSeq(title, i, i) \in keep THEN SubSeq(title, i, i) ELSE "_")

\* the filename is the sanitized cached title (or 'video'), a dot, and ext
filenameIs(keep, ext) ==
    LET name == dispositionFilename
        base == SubSeq(name, 1, Len(name) - Len(ext) - 1)
    IN  /\ EndsWith(name, "." \o ext)
        /\ IF stCache.cached
           THEN sanitizedWith(base, stCache.title, keep)
           ELSE base = "video"

\* extension by content-type, else the requested container
extByType ==
    IF Includes(stUpResp.contentType, "audio") THEN "mp3"
    ELSE IF Includes(stUpResp.contentType, "mp4") THEN "mp4"
    ELSE stReq.format

\* extension of the path of the resolved media URL ("" when it has none)
pathExt == extFromPath(pathnameOf(lkResult.value))

\* C26 as stated: the filename is the cached title with everything but
\* letters, digits, underscore and space replaced ('video' without a
\* cached record), then the extension of the upstream URL path when it has
\* one, else the one the content-type gives, else the requested container
C26_Filename ==
    directRelay =>
        filenameIs(AlnumChars \cup {" ", "_"},
                   IF pathExt /= "" THEN pathExt ELSE extByType)

\* C26 amended: whitespace of any kind is kept in the title, and the
\* extension of the URL path is used only when it has at most 5 characters
C26_FilenameWhitespaceShortExt ==
    directRelay =>
        filenameIs(AlnumChars \cup WhitespaceChars \cup {"_"},
                   IF pathExt /= "" /\ Len(pathExt) <= 5 THEN pathExt ELSE extByType)

\* a cached title with a tab and a '#', relayed from a URL whose path ends
\* in .webm: the tab is kept, '#' became '_', the extension is webm
C26_Witness ==
    /\ directRelay
    /\ stCache.cached /\ stCache.title = "My\tClip #1"
    /\ lkResult.value = UrlC
    /\ dispositionFilename = "My\tClip _1.webm"

(***************************************************************************)
(* The format selector of every label and platform                         *)
(* (generateDownloadLink up to `spawn`, for the requests of a download)    *)
(***************************************************************************)

\* heights of declared streams, one for each label extractQualities and the
\* fixed ladders can produce, and two (240, 144) below the fixed ladders
SelectorHeights == {2160, 1440, 1080, 720, 480, 360, 240, 144}

SelectorLabels == {qualityLabel(h) : h \in SelectorHeights} \cup {"Audio Only"}

SelectorUrls ==
    { "https://youtu.be/abc123", "https://vimeo.com/1",
      "https://www.tiktok.com/@u/video/1", "https://www.instagram.com/reel/1",
      "https://www.pinterest.com/pin/1", "https://pin.it/abc" }

SelectorRequests ==
    { Request(u, q, f, c, "", "") :
        u \in SelectorUrls, q \in SelectorLabels, f \in {"mp4", "mp3"},
        c \in CompatFlags }

SelectorInit ==
    /\ stReq \in SelectorRequests
    /\ stCache = NoCache
    /\ stPc = "received"
    /\ res = NewResponse
    /\ stErrorWrites = <<>> /\ stUpstream = <<>> /\ stUpResp = NoUpstreamResponse
    /\ stProc = "none" /\ stFile = "none" /\ stRead = "none"
    /\ stClient = "connected"
    /\ LinkOff
    /\ DetectOff /\ MergeOff /\ ExtractOff /\ RouteOff /\ TempOff /\ HandshakeOff

\* the handler runs up to the spawn of the first tool process
SpecSelector == SelectorInit /\ [][StreamStart]_vars

(***************************************************************************)
(* C27: the height ceiling of the selector                                 *)
(***************************************************************************)

\* the first tool process of a video request has been spawned
selectorBuilt ==
    /\ lkPc = "proc1"
    /\ stReq.format /= "mp3"

\* the height the quality label stands for (0: the label names none)
encodedHeight(label) ==
    LET hs == {h \in SelectorHeights : qualityLabel(h) = label}
    IN  IF hs = {} THEN 0 ELSE CHOOSE h \in hs : TRUE

\* the selector up to its first '/'
firstAlternative(selector) ==
    LET slash == IndexFrom(selector, "/", 1)
    IN  IF slash = 0 THEN selector ELSE SubSeq(selector, 1, slash - 1)

heightCeiling(h) == "[height<=" \o ToString(h) \o "]"

\* C27: for a label that encodes a resolution the first alternative of the
\* selector has exactly that height as its ceiling, on every platform; a
\* label that encodes none gets a selector without a ceiling
C27_CeilingOfLabel ==
    selectorBuilt =>
        LET h == encodedHeight(stReq.quality)
            first == firstAlternative(lkSpawned[1].selector)
        IN  IF h /= 0
            THEN Includes(first, heightCeiling(h))
            ELSE ~Includes(lkSpawned[1].selector, "[height<=")

(***************************************************************************)
(* C28: the order of the selector's alternatives                           *)
(***************************************************************************)

\* the alternatives of a selector, split at '/'
RECURSIVE alternativesOf(_)
alternativesOf(selector) ==
    LET slash == IndexFrom(selector, "/", 1)
    IN  IF slash = 0 THEN <<selector>>
        ELSE <<SubSeq(selector, 1, slash - 1)>>
                \o alternativesOf(SubSeq(selector, slash + 1, Len(selector)))

\* 1: ceiling + mp4 + HTTP, 2: ceiling only, 3: mp4 without ceiling,
\* 4: anything, 0: none of these
kindOf(alt) ==
    LET ceiling == Includes(alt, "[height<=")
        mp4 == Includes(alt, "[ext=mp4]")
        http == Includes(alt, "[protocol^=http]")
    IN  IF ceiling /\ mp4 /\ http THEN 1
        ELSE IF ceiling /\ ~mp4 /\ ~http THEN 2
        ELSE IF ~ceiling /\ mp4 THEN 3
        ELSE IF alt = "best" THEN 4
        ELSE 0

kindsOf(selector) ==
    LET alts == alternativesOf(selector)
    IN  [i \in 1..Len(alts) |-> kindOf(alts[i])]

\* the platforms whose selector has the looser alternatives
looseSelectorUrl(url) ==
    \/ Includes(url, "tiktok.com") \/ Includes(url, "instagram.com")
    \/ Includes(url, "pinterest.com") \/ Includes(url, "pin.it")

\* C28 as stated: on every platform and for every label the alternatives
\* are of the kinds (a) ceiling + mp4 + HTTP, (b) ceiling only, (c) mp4,
\* (d) anything, in that order, all four when the label has a ceiling
C28_AlternativesOrder ==
    selectorBuilt =>
        LET kinds == kindsOf(lkSpawned[1].selector)
        IN  /\ \A i \in 1..Len(kinds) : kinds[i] /= 0
            /\ \A i \in 1..(Len(kinds) - 1) : kinds[i] < kinds[i + 1]
            /\ kinds[1] = 1 => kinds = <<1, 2, 3, 4>>

\* C28 amended: (a), (b), (c), (d) in that order for a label whose ceiling
\* is recognised on a platform other than TikTok, Instagram and Pinterest,
\* and mp4 + HTTP then anything without a ceiling; on those three platforms
\* the alternatives are (a) for 1080/720/480 only, then mp4 + HTTP, then
\* anything HTTP-delivered, then anything
C28_AlternativesOrderByPlatform ==
    selectorBuilt =>
        LET alts == alternativesOf(lkSpawned[1].selector)
            kinds == kindsOf(lkSpawned[1].selector)
            looseTail == << "best[ext=mp4][protocol^=http]", "best[protocol^=http]", "best" >>
        IN  IF looseSelectorUrl(stReq.url)
            THEN \/ alts = looseTail
                 \/ /\ Len(alts) = 4
                    /\ kinds[1] = 1
                    /\ SubSeq(alts, 2, 4) = looseTail
            ELSE \/ kinds = <<1, 2, 3, 4>>
                 \/ alts = << "best[ext=mp4][protocol^=http]", "best" >>

\* a 1080p request on YouTube got the four alternatives (a) to (d)
C28_Witness ==
    /\ selectorBuilt
    /\ stReq.url = "https://youtu.be/abc123"
    /\ stReq.quality = "1080p HD"
    /\ alternativesOf(lkSpawned[1].selector) =
          << "best[height<=1080][ext=mp4][protocol^=http]", "best[height<=1080]",
             "best[ext=mp4]", "best" >>

(***************************************************************************)
(* C29: the merge rule of extractQualities                                 *)
(***************************************************************************)

\* the tool exited zero with a record whose formats are a list, and the
\* call resolved with the list extractQualities built from them
C29_Case ==
    /\ exPc = "done"
    /\ exTool.exited /\ exTool.code = 0
    /\ firstRecord(exTool.lines) /= 0
    /\ exTool.lines[firstRecord(exTool.lines)].formatsKind = "array"
    /\ exResult.state = "resolved"

\* the video streams of the record that carry the label
streamsOfLabel(formats, label) ==
    {i \in 1..Len(formats) :
        /\ formats[i].height /= 0
        /\ formats[i].vcodec /= "none"
        /\ qualityLabel(formats[i].height) = label}

\* C29: in the list extractQualities returns, the option of a label has a
\* known size when some stream of the label has one, and has format mp4
\* when some stream of the label is mp4, in whatever order the streams are
\* declared
C29_MergeRulePerLabel ==
    C29_Case =>
        LET formats == exTool.lines[firstRecord(exTool.lines)].formats
            list == exResult.value.availableQualities
        IN  \A k \in 1..Len(list) :
                LET streams == streamsOfLabel(formats, list[k].quality)
                IN  /\ (\E i \in streams : streamFileSize(formats[i]) /= "Unknown")
                          => list[k].fileSize /= "Unknown"
                    /\ (\E i \in streams : formats[i].ext \in {"mp4", Undefined})
                          => list[k].format = "mp4"

(***************************************************************************)
(* C32: the first successful tier ends the call                            *)
(***************************************************************************)

\* the probe of tier 1 or 2 answered OK and its body was read
probeSucceeded == exPc = "done" /\ exProbe = "ok"

\* every video option of the list has size 'Unknown'
sizesUnknown(list) ==
    \A i \in 1..Len(list) :
        list[i].quality /= "Audio Only" => list[i].fileSize = "Unknown"

\* C32: a call whose oEmbed or scrape probe succeeded spawned no tool
\* process and resolved with one of the fixed ladders, every video size
\* 'Unknown'
C32_ShortCircuitOnProbe ==
    probeSucceeded =>
        /\ exSpawned = 0
        /\ ~exTool.exited
        /\ exResult.state = "resolved"
        /\ exResult.value.availableQualities \in {youtubeLadder, shortLadder}
        /\ sizesUnknown(exResult.value.availableQualities)

\* a TikTok page was scraped: the short ladder came back, no tool ran
C32_Witness ==
    /\ probeSucceeded
    /\ probeOf(exPlatform) = "scrape"
    /\ exSpawned = 0
    /\ exResult.state = "resolved"
    /\ exResult.value.availableQualities = shortLadder

(***************************************************************************)
(* C36: the processes of one generateDownloadLink call                     *)
(***************************************************************************)

\* the stderr texts of the model that carry each signature
jsonParseErrorTexts == {e \in LinkStderrTexts : jsonParseError(e)}

formatUnavailableTexts == {e \in LinkStderrTexts : formatUnavailable(e)}

stderrJsonParseError(e) ==
    IF e \in LinkStderrTexts THEN e \in jsonParseErrorTexts ELSE jsonParseError(e)

stderrFormatUnavailable(e) ==
    IF e \in LinkStderrTexts THEN e \in formatUnavailableTexts ELSE formatUnavailable(e)

\* the first process failed on a Pinterest URL with the JSON signature
pinterestJsonFailure ==
    /\ pinterestUrl(stReq.url)
    /\ stderrJsonParseError(lkExits[1].stderr)

\* C36: a call spawns at most two processes; the second one is spawned only
\* after a non-zero exit of the first and is either the Pinterest fallback
\* (JSON signature on a Pinterest URL) or the format-unavailable retry
\* (never both); when the second has closed the call has settled and spawns
\* nothing more; a first exit 0 with empty output rejects with one process
C36_AtMostTwoProcesses ==
    /\ Len(lkSpawned) <= 2
    /\ Len(lkExits) <= Len(lkSpawned)
    /\ Len(lkSpawned) = 2 =>
          /\ lkExits /= <<>>
          /\ lkExits[1].code /= 0
          /\ lkSpawned[2] \in {fallbackArgs, retryArgs}
          /\ lkSpawned[2] = fallbackArgs <=> pinterestJsonFailure
          /\ lkSpawned[2] = retryArgs =>
                stderrFormatUnavailable(lkExits[1].stderr) /\ ~pinterestJsonFailure
    /\ Len(lkExits) = 2 => lkPc = "done" /\ lkResult.state /= "pending"
    /\ (lkExits /= <<>> /\ lkExits[1].code = 0 /\ firstLine(lkExits[1].lines) = "") =>
          /\ Len(lkSpawned) = 1
          /\ lkPc = "done"
          /\ lkResult = Rejected(<<"No download URL returned from yt-dlp">>)

\* a Pinterest URL failed with both signatures in stderr: the fallback ran,
\* it failed too, and the call settled with two processes spawned
C36_Witness ==
    /\ lkPc = "done"
    /\ Len(lkSpawned) = 2 /\ Len(lkExits) = 2
    /\ pinterestJsonFailure
    /\ stderrFormatUnavailable(lkExits[1].stderr)
    /\ lkSpawned[2] = fallbackArgs
    /\ lkExits[2].code /= 0

(***************************************************************************)
(* C34: the relay of the temp file                                         *)
(***************************************************************************)

\* the step in which the tool closes with code 0 over a file with content
toolSucceededStep ==
    /\ stPc = "transcoding" /\ stPc' = "relayFile"
    /\ stFile = "present"

\* the step in which the read stream of the temp file ends
fileEndStep ==
    /\ stPc = "relayFile"
    /\ stRead = "open" /\ stRead' = "ended"
    /\ stFile = "present"

\* the step in which the temp file is unlinked
unlinkStep == stFile \in {"present", "empty"} /\ stFile' = "absent"

C34_Step ==
    /\ toolSucceededStep => res'.headers.ContentLength = ToString(MaxChunks)
    /\ fileEndStep =>
          /\ res'.bytes = MaxChunks
          /\ res'.ended
          /\ ToString(res'.bytes) = res'.headers.ContentLength
    /\ unlinkStep => stRead' \in {"errored", "closed"}

sizeUnknown(fileSize) == fileSize = "" \/ fileSize = "Unknown"

RECURSIVE mapFromProbed(_, _)
\* for (const p of probed) map.set(p.quality, { ...p })
mapFromProbed(map, probed) ==
    IF probed = <<>> THEN map
    ELSE mapFromProbed(MapSet(map, Head(probed).quality, Head(probed)), Tail(probed))

\* a merge that appends every original entry instead of keying it by label
overlayOrig_Append(map, q) == Append(map, [key |-> q.quality, val |-> q])

\* body of `for (const q of orig)`: keep original entries the probe lacks,
\* fill a probed entry's unknown size / missing format from the original
overlayOrig(map, q) ==
    IF ~MapHas(map, q.quality)
    THEN MapSet(map, q.quality, q)
    ELSE LET current == MapGet(map, q.quality)
             withSize == IF sizeUnknown(current.fileSize)
                         THEN [current EXCEPT !.fileSize = q.fileSize]
                         ELSE current
             withFormat == IF withSize.format = "" /\ q.format /= ""
                           THEN [withSize EXCEPT !.format = q.format]
                           ELSE withSize
         IN  MapSet(map, q.quality, withFormat)

RECURSIVE overlayAll(_, _)
overlayAll(map, orig) ==
    IF orig = <<>> THEN map
    ELSE overlayAll(overlayOrig(map, Head(orig)), Tail(orig))

\* merged = Array.from(map.values())
mergeQualities(probed, orig) ==
    MapValues(overlayAll(mapFromProbed(<<>>, probed), orig))

\* what probeQualities resolves with: extractQualities of the declared
\* formats, or [] when the tool's output does not parse
ProbeResults == {extractQualities(f) : f \in FormatLists} \cup {<<>>}

\* what extractVideoInfo puts in availableQualities
SavedLadders == GenericLadders \cup {extractQualities(f) : f \in FormatLists}

\* probe results of a later request for the same URL
OtherProbes == {extractQualities(<<f>>) : f \in DeclaredStreams}

\* a handler that answers with the enriched list (it waits for the probe)
savedResponse_Enriched(saved, probed) ==
    [sent |-> TRUE, status |-> 200,
     qualities |-> IF Len(probed) > 0 THEN mergeQualities(probed, saved) ELSE saved]

\* res.json(savedInfo)
savedResponse(saved, probed) ==
    [sent |-> TRUE, status |-> 200, qualities |-> saved]

\* storage.updateVideoInfo(url, { availableQualities: merged }): the cached
\* record takes the merged list
updateVideoInfo(stored, merged) == merged

\* the state after storage.saveVideoInfo: the record is cached, nothing is
\* sent yet; mgProbed is what the probe resolves with if it ever does
MergeInit ==
    /\ mgProbed \in ProbeResults
    /\ mgOrig \in SavedLadders
    /\ mgStored = mgOrig
    /\ mgMerged = <<>> /\ mgFirst = <<>>
    /\ mgPc = "saved"
    /\ mgResp = NoExtractResponse
    /\ DetectOff /\ ExtractOff /\ StreamOff /\ RouteOff /\ TempOff /\ HandshakeOff

\* the rest of the handler: the detached closure starts and runs up to
\* `await probeQualities(url)`, then res.json(savedInfo) answers
RespondSaved ==
    /\ mgPc = "saved"
    /\ mgResp' = savedResponse(mgOrig, mgProbed)
    /\ mgPc' = "start"
    /\ UNCHANGED <<mgProbed, mgOrig, mgMerged, mgFirst, mgStored>>
    /\ MergeFrame

\* the awaited probe throws: the closure's catch logs a warning
ProbeThrows ==
    /\ mgPc = "start"
    /\ mgPc' = "threw"
    /\ UNCHANGED <<mgProbed, mgOrig, mgMerged, mgFirst, mgResp, mgStored>>
    /\ MergeFrame

\* the probe resolved: merge when it returned a non-empty array, then update
\* the cache; a throwing update is caught and logged
BackgroundMerge ==
    /\ mgPc = "start"
    /\ IF Len(mgProbed) > 0
       THEN /\ mgMerged' = mergeQualities(mgProbed, mgOrig)
            /\ mgFirst' = mgMerged'
            /\ \E updated \in BOOLEAN :
                  mgStored' = IF updated THEN updateVideoInfo(mgStored, mgMerged')
                              ELSE mgStored
            /\ mgPc' = "merged"
       ELSE /\ mgPc' = "skipped"
            /\ UNCHANGED <<mgMerged, mgFirst, mgStored>>
    /\ UNCHANGED <<mgProbed, mgOrig, mgResp>>
    /\ MergeFrame

\* the same probe result merged into the already merged list
MergeAgain ==
    /\ mgPc = "merged"
    /\ mgMerged' = mergeQualities(mgProbed, mgMerged)
    /\ \E updated \in BOOLEAN :
          mgStored' = IF updated THEN updateVideoInfo(mgStored, mgMerged')
                      ELSE mgStored
    /\ mgPc' = "again"
    /\ UNCHANGED <<mgProbed, mgOrig, mgFirst, mgResp>>
    /\ MergeFrame

\* the closure of a later request for the URL merges its own probe result
\* into the record it saved
MergeOther ==
    /\ mgPc \in {"merged", "again"}
    /\ \E probed \in OtherProbes :
          /\ mgMerged' = mergeQualities(probed, mgStored)
          /\ \E updated \in BOOLEAN :
                mgStored' = IF updated THEN updateVideoInfo(mgStored, mgMerged')
                            ELSE mgStored
    /\ mgPc' = "other"
    /\ UNCHANGED <<mgProbed, mgOrig, mgFirst, mgResp>>
    /\ MergeFrame

MergeNext == RespondSaved \/ ProbeThrows \/ BackgroundMerge \/ MergeAgain \/ MergeOther

SpecMerge == MergeInit /\ [][MergeNext]_vars

(***************************************************************************)
(* C15 - C17                                                               *)
(***************************************************************************)

\* C15: once the handler has run past saveVideoInfo the caller has a 200
\* response carrying the saved record, whatever the probe does afterwards
\* (still pending, threw, returned nothing, merged) and whether or not the
\* cache update went through.
C15_ResponseNotAwaitingProbe ==
    mgPc \notin {"off", "saved"} =>
        mgResp = [sent |-> TRUE, status |-> 200, qualities |-> mgOrig]

\* the probe resolved with a list that changes the record, the cache update
\* failed, and the response is the saved record
C15_Witness ==
    /\ mgPc = "merged"
    /\ mgMerged /= mgOrig
    /\ mgStored = mgOrig
    /\ mgResp = [sent |-> TRUE, status |-> 200, qualities |-> mgOrig]

\* position of the audio-only option and the heights of the others
audioLast(list) ==
    \A i \in 1..Len(list) : list[i].quality = "Audio Only" => i = Len(list)

descending(list) ==
    \A i, j \in 1..Len(list) :
        (i < j /\ list[i].quality /= "Audio Only" /\ list[j].quality /= "Audio Only")
            => labelHeight(list[i].quality) >= labelHeight(list[j].quality)

noRepeatedLabel(list) ==
    \A i, j \in 1..Len(list) : list[i].quality = list[j].quality => i = j

\* C17: the saved list, the probe's list (output of extractQualities), the
\* merged list and the cached list after the background merges hold at most
\* one option per label.
C17_OneOptionPerLabel ==
    /\ noRepeatedLabel(mgOrig)
    /\ noRepeatedLabel(mgProbed)
    /\ noRepeatedLabel(mgMerged)
    /\ noRepeatedLabel(mgStored)

\* a later merge went into a cached list that an earlier merge had written,
\* and both the probe and the saved list named the same label
C17_Witness ==
    /\ mgPc = "other"
    /\ mgStored = mgMerged
    /\ Len(mgStored) > Len(mgOrig)
    /\ \E i \in 1..Len(mgProbed) : \E j \in 1..Len(mgOrig) :
          mgProbed[i].quality = mgOrig[j].quality

(***************************************************************************)
(* C30                                                                     *)
(***************************************************************************)

\* the options of a list that carry the label
withLabel(list, label) == {i \in 1..Len(list) : list[i].quality = label}

\* C30: once the background closure has run for a non-empty probe result,
\* the cached record has every probed label with the probed size (the
\* original size when the probed one is unknown) and every original label
\* the probe did not return
C30_CacheHoldsMerged ==
    mgPc = "merged" =>
        /\ \A i \in 1..Len(mgProbed) :
              LET orig == withLabel(mgOrig, mgProbed[i].quality)
                  size == IF sizeUnknown(mgProbed[i].fileSize) /\ orig /= {}
                          THEN mgOrig[CHOOSE j \in orig : TRUE].fileSize
                          ELSE mgProbed[i].fileSize
              IN  \E k \in withLabel(mgStored, mgProbed[i].quality) :
                      mgStored[k].fileSize = size
        /\ \A j \in 1..Len(mgOrig) :
              withLabel(mgProbed, mgOrig[j].quality) = {}
                  => \E k \in 1..Len(mgStored) : mgStored[k] = mgOrig[j]

(***************************************************************************)
(* C7                                                                      *)
(***************************************************************************)

\* C7: the background merge is idempotent: merging the probe result into
\* the merged list again yields the list of the first merge (same labels,
\* formats, sizes and order).
C7_MergeIdempotent ==
    mgPc = "again" => mgMerged = mgFirst

\* a second merge has run on a list in which the first merge both filled a
\* probed entry from the original and kept an original entry the probe lacks
C7_Witness ==
    /\ mgPc = "again"
    /\ \E i \in 1..Len(mgProbed) : \E j \in 1..Len(mgOrig) :
          /\ mgProbed[i].quality = mgOrig[j].quality
          /\ sizeUnknown(mgProbed[i].fileSize)
          /\ ~sizeUnknown(mgOrig[j].fileSize)
    /\ \E j \in 1..Len(mgOrig) :
          \A i \in 1..Len(mgProbed) : mgProbed[i].quality /= mgOrig[j].quality

(***************************************************************************)
(* C5                                                                      *)
(***************************************************************************)

\* the supported domain a host belongs to ("" when it belongs to none): the
\* host is the domain itself or a subdomain of it
DomainOfHost(host) ==
    LET Owns(d) == host = d \/ EndsWith(host, "." \o d)
        idx == FindIndex(supportedPlatforms, Owns)
    IN  IF idx = 0 THEN "" ELSE supportedPlatforms[idx]

CanonicalPlatform ==
    [d \in SupportedDomainSet |->
        CASE d \in {"youtube.com", "youtu.be"} -> "YouTube"
          [] d = "tiktok.com" -> "TikTok"
          [] d = "instagram.com" -> "Instagram"
          [] d = "facebook.com" -> "Facebook"
          [] d \in {"twitter.com", "x.com"} -> "Twitter/X"
          [] d = "vimeo.com" -> "Vimeo"
          [] d = "reddit.com" -> "Reddit"
          [] d = "linkedin.com" -> "LinkedIn"
          [] d \in {"pinterest.com", "pin.it"} -> "Pinterest"
          [] d \in {"dailymotion.com", "dai.ly"} -> "Dailymotion"]

\* C5: a URL whose host is (a subdomain of) a supported platform domain is
\* classified as the canonical platform of that domain, and a URL of any
\* other domain is rejected with the unsupported-platform error.
C5_DetectByDomain ==
    detResult.status /= 0 =>
        IF DomainOfHost(detHost) /= ""
        THEN /\ detResult.valid
             /\ detResult.platform = CanonicalPlatform[DomainOfHost(detHost)]
        ELSE /\ ~detResult.valid
             /\ detResult.error = "Unsupported platform"

(***************************************************************************)
(* C40: the client's and the server's classification                       *)
(***************************************************************************)

\* C40: for a URL both sides have classified, the client names the platform
\* the server returned, the client says 'Unknown' exactly when the server
\* threw, and neither side answers 'Unknown' for a URL that holds a domain of
\* the list
matchedDomain ==
    \E i \in 1..Len(supportedPlatforms) :
        Includes(UrlOf(detHost, detPath), supportedPlatforms[i])

C40_ClientAgreesWithServer ==
    (detClient /= "" /\ detResult.status /= 0) =>
        /\ detResult.valid => detClient = detResult.platform
        /\ detClient = "Unknown" <=> ~detResult.valid
        /\ matchedDomain =>
                detClient /= "Unknown" /\ detResult.valid /\ detResult.platform /= "Unknown"

\* both sides classified a URL of x.com as Twitter/X
C40_Witness ==
    /\ detClient = "Twitter/X" /\ detResult.status /= 0
    /\ detHost = "x.com" /\ detResult.platform = "Twitter/X"

(***************************************************************************)
(* POST /api/extract-video-info and POST /api/generate-download-link:      *)
(* several requests in flight against the one MemStorage                   *)
(***************************************************************************)

\* the requests in flight
Requests == {"r1", "r2", "r3"}
LinkRequests == {"d1"}

RouteUrls == {"https://youtu.be/abc123", "https://vimeo.com/42"}

\* undefined, as a cached record
NoVideoInfo == [url |-> "", availableQualities |-> <<>>]

\* MemStorage.getVideoInfo(url)
getVideoInfo(cache, url) ==
    LET values == MapValues(cache)
        SameUrl(info) == info.url = url
        idx == FindIndex(values, SameUrl)
    IN  IF idx = 0 THEN NoVideoInfo ELSE values[idx]

\* MemStorage.saveVideoInfo(videoInfo): this.videoInfoCache.set(videoInfo.url, info)
saveVideoInfo(cache, videoInfo) == MapSet(cache, videoInfo.url, videoInfo)

\* a handler that never finds a cached record
cacheHit_Never(cachedInfo) == FALSE

\* if (cachedInfo)
cacheHit(cachedInfo) == cachedInfo /= NoVideoInfo

\* what extractVideoInfo resolves with for the URL: the fixed ladder of the
\* network probe, or the list built from the formats the tool declared
RouteLadders ==
    {youtubeLadder,
     extractQualities(<<Stream(1080, "avc1", "mp4", 5767168, 0)>>)}

\* what probeQualities resolves with
RouteProbes ==
    {<<>>, extractQualities(<<Stream(1080, "avc1", "mp4", 5767168, 0)>>),
     extractQualities(<<Stream(720, "avc1", "mp4", 0, 0)>>)}

NoRouteResponse == [sent |-> FALSE, status |-> 0, info |-> NoVideoInfo]

\* res.json(info) / res.status(500).json({ error })
routeJson(status, info) == [sent |-> TRUE, status |-> status, info |-> info]

\* the body of a generate-download-link request
LinkRequest(url, quality) == [url |-> url, quality |-> quality]

\* storage.addDownloadHistory({...}): one more record, status 'completed'
addDownloadHistory(history, d, req, videoInfo) ==
    Append(history, [request |-> d, url |-> req.url, quality |-> req.quality,
                     status |-> "completed"])

RouteInit ==
    /\ videoInfoCache = <<>> /\ downloadHistory = <<>>
    /\ rtUrl \in [Requests -> RouteUrls]
    /\ rtPc = [r \in Requests |-> "new"]
    /\ rtSeen = [r \in Requests |-> NoVideoInfo]
    /\ rtSaved = [r \in Requests |-> <<>>]
    /\ rtProbe = [r \in Requests |-> "none"]
    /\ rtResp = [r \in Requests |-> NoRouteResponse]
    /\ rtTiers = [r \in Requests |-> 0]
    /\ rtWrites = [r \in Requests |-> 0]
    /\ glReq \in [LinkRequests -> {LinkRequest(u, "1080p HD") : u \in RouteUrls}]
    /\ glPc = [d \in LinkRequests |-> "new"]
    /\ glLink = [d \in LinkRequests |-> "never"]
    /\ DetectOff /\ MergeOff /\ ExtractOff /\ StreamOff /\ TempOff /\ HandshakeOff

\* the handler up to its first wait: look the URL up, answer with the cached
\* record or call extractVideoInfo
ExtractRequest(r) ==
    /\ rtPc[r] = "new"
    /\ LET cachedInfo == getVideoInfo(videoInfoCache, rtUrl[r])
       IN  /\ rtSeen' = [rtSeen EXCEPT ![r] = cachedInfo]
           /\ IF cacheHit(cachedInfo)
              THEN /\ rtResp' = [rtResp EXCEPT ![r] = routeJson(200, cachedInfo)]
                   /\ rtPc' = [rtPc EXCEPT ![r] = "hit"]
                   /\ UNCHANGED rtTiers
              ELSE /\ rtTiers' = [rtTiers EXCEPT ![r] = @ + 1]
                   /\ rtPc' = [rtPc EXCEPT ![r] = "extracting"]
                   /\ UNCHANGED rtResp
    /\ UNCHANGED <<videoInfoCache, downloadHistory, rtUrl, rtSaved, rtProbe, rtWrites,
                   glReq, glPc, glLink>>
    /\ RouteFrame

\* extractVideoInfo rejected: the handler's catch answers 500
ExtractRejects(r) ==
    /\ rtPc[r] = "extracting"
    /\ rtResp' = [rtResp EXCEPT ![r] = routeJson(500, NoVideoInfo)]
    /\ rtPc' = [rtPc EXCEPT ![r] = "failed"]
    /\ UNCHANGED <<videoInfoCache, downloadHistory, rtUrl, rtSeen, rtSaved, rtProbe,
                   rtTiers, rtWrites, glReq, glPc, glLink>>
    /\ RouteFrame

\* extractVideoInfo resolved: save the record, start the detached closure
\* (it runs up to `await probeQualities(url)`), answer with the saved record
ExtractResolves(r) ==
    /\ rtPc[r] = "extracting"
    /\ \E qualities \in RouteLadders :
          LET savedInfo == [url |-> rtUrl[r], availableQualities |-> qualities]
          IN  /\ videoInfoCache' = saveVideoInfo(videoInfoCache, savedInfo)
              /\ rtSaved' = [rtSaved EXCEPT ![r] = qualities]
              /\ rtResp' = [rtResp EXCEPT ![r] = routeJson(200, savedInfo)]
    /\ rtWrites' = [rtWrites EXCEPT ![r] = @ + 1]
    /\ rtProbe' = [rtProbe EXCEPT ![r] = "pending"]
    /\ rtPc' = [rtPc EXCEPT ![r] = "answered"]
    /\ UNCHANGED <<downloadHistory, rtUrl, rtSeen, rtTiers, glReq, glPc, glLink>>
    /\ RouteFrame

\* the awaited probe throws: the closure's catch logs a warning
RouteProbeThrows(r) ==
    /\ rtProbe[r] = "pending"
    /\ rtProbe' = [rtProbe EXCEPT ![r] = "threw"]
    /\ UNCHANGED <<videoInfoCache, downloadHistory, rtUrl, rtPc, rtSeen, rtSaved,
                   rtResp, rtTiers, rtWrites, glReq, glPc, glLink>>
    /\ RouteFrame

\* the probe resolved: a non-empty result is merged into the list this
\* request saved and handed to storage.updateVideoInfo, which stores it or
\* throws into the closure's catch
RouteProbeResolves(r) ==
    /\ rtProbe[r] = "pending"
    /\ \E probed \in RouteProbes :
          IF Len(probed) > 0
          THEN LET merged == mergeQualities(probed, rtSaved[r])
                   stored == getVideoInfo(videoInfoCache, rtUrl[r])
               IN  \E updated \in BOOLEAN :
                      IF updated
                      THEN /\ videoInfoCache' =
                                 MapSet(videoInfoCache, rtUrl[r],
                                        [stored EXCEPT !.availableQualities =
                                            updateVideoInfo(@, merged)])
                           /\ rtWrites' = [rtWrites EXCEPT ![r] = @ + 1]
                           /\ rtProbe' = [rtProbe EXCEPT ![r] = "merged"]
                      ELSE /\ rtProbe' = [rtProbe EXCEPT ![r] = "lost"]
                           /\ UNCHANGED <<videoInfoCache, rtWrites>>
          ELSE /\ rtProbe' = [rtProbe EXCEPT ![r] = "skipped"]
               /\ UNCHANGED <<videoInfoCache, rtWrites>>
    /\ UNCHANGED <<downloadHistory, rtUrl, rtPc, rtSeen, rtSaved, rtResp, rtTiers,
                   glReq, glPc, glLink>>
    /\ RouteFrame

\* POST /api/generate-download-link: build the streaming url, append a
\* history record when the URL is cached, answer with the streaming url
GenerateLink(d) ==
    /\ glPc[d] = "new"
    /\ LET videoInfo == getVideoInfo(videoInfoCache, glReq[d].url)
       IN  downloadHistory' =
               IF videoInfo /= NoVideoInfo
               THEN addDownloadHistory(downloadHistory, d, glReq[d], videoInfo)
               ELSE downloadHistory
    /\ glPc' = [glPc EXCEPT ![d] = "answered"]
    /\ UNCHANGED <<videoInfoCache, rtUrl, rtPc, rtSeen, rtSaved, rtProbe, rtResp,
                   rtTiers, rtWrites, glReq, glLink>>
    /\ RouteFrame

\* the client opens the streaming url it was given: GET /api/stream-video
\* calls generateDownloadLink, which resolves or rejects
StreamingUrlOpened(d) ==
    /\ glPc[d] = "answered" /\ glLink[d] = "never"
    /\ \E outcome \in {"resolved", "failed"} : glLink' = [glLink EXCEPT ![d] = outcome]
    /\ UNCHANGED <<videoInfoCache, downloadHistory, rtUrl, rtPc, rtSeen, rtSaved,
                   rtProbe, rtResp, rtTiers, rtWrites, glReq, glPc>>
    /\ RouteFrame

RouteNext ==
    \/ \E r \in Requests :
          \/ ExtractRequest(r)
          \/ ExtractRejects(r)
          \/ ExtractResolves(r)
          \/ RouteProbeThrows(r)
          \/ RouteProbeResolves(r)
    \/ \E d \in LinkRequests :
          \/ GenerateLink(d)
          \/ StreamingUrlOpened(d)

SpecRoute == RouteInit /\ [][RouteNext]_vars

(***************************************************************************)
(* C37: what a failed extraction and a cache hit leave alone               *)
(***************************************************************************)

\* C37: a request whose extractVideoInfo rejected has written nothing to the
\* cache, started no background probe and answered 500; a request that found
\* a cached record for its URL answered with that record and called neither
\* extractVideoInfo nor the probe
C37_FailureAndHitTouchNothing ==
    \A r \in Requests :
        /\ rtPc[r] = "failed" =>
              /\ rtWrites[r] = 0 /\ rtProbe[r] = "none"
              /\ rtResp[r].status = 500
        /\ rtSeen[r] /= NoVideoInfo =>
              /\ rtTiers[r] = 0 /\ rtProbe[r] = "none" /\ rtWrites[r] = 0
              /\ rtResp[r] = routeJson(200, rtSeen[r])

\* of three requests for one URL the first failed, the second saved a record
\* and the third was answered from it
C37_Witness ==
    /\ rtPc["r1"] = "failed" /\ rtPc["r2"] = "answered" /\ rtPc["r3"] = "hit"
    /\ rtUrl["r1"] = rtUrl["r2"] /\ rtUrl["r2"] = rtUrl["r3"]
    /\ rtResp["r3"].info = getVideoInfo(videoInfoCache, rtUrl["r3"])

(***************************************************************************)
(* C31: concurrent requests for one URL against the cache                  *)
(***************************************************************************)

\* the cached records of a URL
recordsOf(cache, url) == {i \in 1..Len(cache) : cache[i].val.url = url}

\* the cached record of the URL lists the label with the given kind of size
cachedSize(cache, url, label, Unknown) ==
    \E i \in recordsOf(cache, url) :
        \E k \in 1..Len(cache[i].val.availableQualities) :
            LET q == cache[i].val.availableQualities[k]
            IN  q.quality = label /\ (sizeUnknown(q.fileSize) <=> Unknown)

RouteLabels == {"1080p HD", "720p HD", "Audio Only"}

C31_Step ==
    \A url \in RouteUrls :
        /\ Cardinality(recordsOf(videoInfoCache', url)) <= 1
        /\ \A label \in RouteLabels :
              cachedSize(videoInfoCache, url, label, FALSE) =>
                  ~cachedSize(videoInfoCache', url, label, TRUE)

\* C31: whatever the interleaving of the requests, the cache holds at most one
\* record per URL, and a label whose cached size is known never gets the size
\* 'Unknown' through a later save or merge
C31_OneRecordKnownSizesKept == [][C31_Step]_vars

(***************************************************************************)
(* C35: download history and link resolution                               *)
(***************************************************************************)

\* C35: every record of the download history belongs to a request whose media
\* link was resolved; none belongs to a request whose resolution failed or
\* was never attempted
C35_HistoryOnlyAfterResolvedLink ==
    \A i \in 1..Len(downloadHistory) :
        glLink[downloadHistory[i].request] = "resolved"

(***************************************************************************)
(* Temp output path of a transcode (GET /api/stream-video), several        *)
(* requests in flight                                                      *)
(***************************************************************************)

TranscodeRequests == {"t1", "t2"}

\* last clock value of the model
MaxClock == 2

\* os.tmpdir()
tmpDir == "/tmp"

\* Math.random().toString(36) for some of the values Math.random() can give
\* (0, 0.5, and a value with a long expansion)
RandomDraws == {"0", "0.i", "0.4fzyo82mvyr"}

\* String.prototype.slice(2)
slice2(s) == SubSeq(s, 3, Len(s))

\* path.join(dir, name)
pathJoin(dir, name) == dir \o "/" \o name

\* `${Date.now()}-${Math.random().toString(36).slice(2)}`
uniqueName(now, random) == ToString(now) \o "-" \o slice2(random)

\* outPath = path.join(tmpDir, `vidfetch-${unique}.${outExt}`)
outPathOf(now, random, format) ==
    pathJoin(tmpDir,
             "vidfetch-" \o uniqueName(now, random) \o "."
                \o (IF format = "mp3" THEN "mp3" ELSE "mp4"))

TempInit ==
    /\ tpNow = 0
    /\ tpFormat \in [TranscodeRequests -> {"mp3", "mp4"}]
    /\ tpPath = [t \in TranscodeRequests |-> ""]
    /\ tpWrote = {}
    /\ DetectOff /\ MergeOff /\ ExtractOff /\ StreamOff /\ RouteOff /\ HandshakeOff

\* a millisecond passes
ClockTick ==
    /\ tpNow < MaxClock
    /\ tpNow' = tpNow + 1
    /\ UNCHANGED <<tpFormat, tpPath, tpWrote>>
    /\ TempFrame

\* the handler reaches the transcode branch and computes outPath
TranscodePath(t) ==
    /\ tpPath[t] = ""
    /\ \E random \in RandomDraws :
          tpPath' = [tpPath EXCEPT ![t] = outPathOf(tpNow, random, tpFormat[t])]
    /\ UNCHANGED <<tpNow, tpFormat, tpWrote>>
    /\ TempFrame

\* the tool process of the request writes its output to outPath
TranscodeWrites(t) ==
    /\ tpPath[t] /= "" /\ t \notin tpWrote
    /\ tpWrote' = tpWrote \cup {t}
    /\ UNCHANGED <<tpNow, tpFormat, tpPath>>
    /\ TempFrame

TempNext ==
    \/ ClockTick
    \/ \E t \in TranscodeRequests : TranscodePath(t) \/ TranscodeWrites(t)

SpecTemp == TempInit /\ [][TempNext]_vars

(***************************************************************************)
(* C33: temp paths of concurrent transcodes                                *)
(***************************************************************************)

\* the path names a file directly in the temp directory
inTmpDir(p) ==
    /\ Len(p) > Len(tmpDir) + 1
    /\ SubSeq(p, 1, Len(tmpDir) + 1) = tmpDir \o "/"
    /\ ~Includes(SubSeq(p, Len(tmpDir) + 2, Len(p)), "/")

\* C33: no two transcode requests write to the same temp path (the names of
\* any two invocations differ), and every temp path lies in the temp
\* directory, outside anything the server publishes
C33_TempPathsUnique ==
    /\ \A t \in tpWrote : inTmpDir(tpPath[t])
    /\ \A t1, t2 \in tpWrote : t1 /= t2 => tpPath[t1] /= tpPath[t2]

(***************************************************************************)
(* Client download handshake: VideoPreview (generateDownloadLinkMutation,  *)
(* signalStarted, onCancel) and DownloadProgress                           *)
(***************************************************************************)

\* the downloads the user starts, in this order; 0 stands for null in a ref
Downloads == {1, 2, 3}

\* a timer of the page: clearTimeout / clearInterval of the id a ref holds
clearTimer(timers, ref) ==
    IF ref /= 0 /\ timers[ref] = "armed" THEN [timers EXCEPT ![ref] = "cleared"]
    ELSE timers

\* iframeRef.current.parentNode.removeChild(iframeRef.current)
removeIframe(iframes, ref) ==
    IF ref /= 0 /\ iframes[ref] \in {"attached", "loaded"}
    THEN [iframes EXCEPT ![ref] = "removed"]
    ELSE iframes

\* mutationFn: canceledRef.current = false; signalledRef.current = false
resetFlags(h) == [h EXCEPT !.canceledRef = FALSE, !.signalledRef = FALSE]

\* signalStarted of download d (a closure over its iframe and token)
signalStarted(h, d) ==
    IF h.signalledRef THEN h
    ELSE IF h.canceledRef
    THEN [h EXCEPT !.timer = clearTimer(h.timer, h.fallbackTimerRef),
                   !.fallbackTimerRef = 0,
                   !.iframe = removeIframe(h.iframe, h.iframeRef),
                   !.iframeRef = 0]
    ELSE [h EXCEPT !.signalledRef = TRUE,
                   !.timer = clearTimer(h.timer, h.fallbackTimerRef),
                   !.fallbackTimerRef = 0,
                   !.poll = clearTimer(h.poll, h.pollTimerRef),
                   !.pollTimerRef = 0,
                   !.dispatched = [h.dispatched EXCEPT ![d] = @ + 1],
                   !.showProgress = FALSE,
                   !.cleanup = h.cleanup \cup {d}]

\* the onCancel listener of 'download-cancel'
onCancel(h) ==
    [h EXCEPT !.canceledRef = TRUE,
              !.abortRef = 0,
              !.timer = clearTimer(h.timer, h.fallbackTimerRef),
              !.fallbackTimerRef = 0,
              !.poll = clearTimer(h.poll, h.pollTimerRef),
              !.pollTimerRef = 0,
              !.iframe = removeIframe(h.iframe, h.iframeRef),
              !.iframeRef = 0]

\* onSuccess of the mutation of download d, past the canceledRef test:
\* attach the iframe, arm the fallback timeout and the cookie poll
armHandshake(h, d) ==
    [h EXCEPT !.iframeRef = d,
              !.iframe = [h.iframe EXCEPT ![d] = "attached"],
              !.fallbackTimerRef = d,
              !.timer = [h.timer EXCEPT ![d] = "armed"],
              !.poll = [clearTimer(h.poll, h.pollTimerRef) EXCEPT ![d] = "armed"],
              !.pollTimerRef = d]

\* the downloads still waiting for their start signal
awaitingStart(h) ==
    {d \in Downloads : h.post[d] \in {"inflight", "succeeded"} /\ h.dispatched[d] = 0}

HandshakeInit ==
    /\ handshake =
          [started |-> 0, showProgress |-> FALSE, abortRef |-> 0, iframeRef |-> 0,
           fallbackTimerRef |-> 0, pollTimerRef |-> 0,
           signalledRef |-> FALSE, canceledRef |-> FALSE, cookie |-> 0,
           post |-> [d \in Downloads |-> "none"],
           timer |-> [d \in Downloads |-> "none"],
           poll |-> [d \in Downloads |-> "none"],
           iframe |-> [d \in Downloads |-> "none"],
           responded |-> [d \in Downloads |-> FALSE],
           dispatched |-> [d \in Downloads |-> 0],
           cancelled |-> [d \in Downloads |-> FALSE],
           cleanup |-> {}]
    /\ hsLast = <<"init", 0>>
    /\ DetectOff /\ MergeOff /\ ExtractOff /\ StreamOff /\ RouteOff /\ TempOff

\* handleDownload and the mutationFn: the Download button is shown whenever
\* no mutation is pending
StartDownload ==
    /\ handshake.started + 1 \in Downloads
    /\ \A d \in Downloads : handshake.post[d] /= "inflight"
    /\ LET d == handshake.started + 1
       IN  /\ handshake' =
                 [resetFlags(handshake) EXCEPT
                     !.started = d, !.showProgress = TRUE, !.abortRef = d,
                     !.post = [handshake.post EXCEPT ![d] = "inflight"]]
           /\ hsLast' = <<"start", d>>
    /\ HandshakeFrame

\* onSuccess: nothing when the user cancelled meanwhile, the handshake else
PostSucceeds(d) ==
    /\ handshake.post[d] = "inflight"
    /\ LET h == [handshake EXCEPT !.abortRef = 0]
       IN  handshake' =
               IF h.canceledRef
               THEN [h EXCEPT !.post = [h.post EXCEPT ![d] = "dropped"]]
               ELSE [armHandshake(h, d) EXCEPT
                        !.post = [h.post EXCEPT ![d] = "succeeded"]]
    /\ hsLast' = <<"success", d>>
    /\ HandshakeFrame

\* onError: the request failed or was aborted
PostFails(d) ==
    /\ handshake.post[d] = "inflight"
    /\ handshake' = [handshake EXCEPT !.abortRef = 0,
                                      !.post = [handshake.post EXCEPT ![d] = "failed"]]
    /\ hsLast' = <<"error", d>>
    /\ HandshakeFrame

\* the server starts answering the iframe's request and drops the cookie
\* that carries the download's token
ResponseStarts(d) ==
    /\ handshake.iframe[d] \in {"attached", "loaded"}
    /\ ~handshake.responded[d]
    /\ handshake' = [handshake EXCEPT !.cookie = d,
                                      !.responded = [handshake.responded EXCEPT ![d] = TRUE]]
    /\ hsLast' = <<"response", d>>
    /\ HandshakeFrame

\* iframe.onload
IframeLoad(d) ==
    /\ handshake.iframe[d] = "attached"
    /\ handshake' =
          signalStarted([handshake EXCEPT
                            !.iframe = [handshake.iframe EXCEPT ![d] = "loaded"]], d)
    /\ hsLast' = <<"load", d>>
    /\ HandshakeFrame

\* the fallback timeout of download d fires
FallbackTimeout(d) ==
    /\ handshake.timer[d] = "armed"
    /\ handshake' =
          signalStarted([handshake EXCEPT
                            !.timer = [handshake.timer EXCEPT ![d] = "fired"]], d)
    /\ hsLast' = <<"timeout", d>>
    /\ HandshakeFrame

\* a tick of the cookie poll of download d that finds its token
PollTick(d) ==
    /\ handshake.poll[d] = "armed"
    /\ ~handshake.canceledRef /\ ~handshake.signalledRef
    /\ handshake.cookie = d
    /\ handshake' = [signalStarted(handshake, d) EXCEPT !.cookie = 0]
    /\ hsLast' = <<"tick", d>>
    /\ HandshakeFrame

\* the delayed cleanup signalStarted scheduled for the iframe of download d
IframeCleanup(d) ==
    /\ d \in handshake.cleanup
    /\ handshake' = [handshake EXCEPT
                        !.iframe = removeIframe(handshake.iframe, d),
                        !.iframeRef = 0,
                        !.cleanup = handshake.cleanup \ {d}]
    /\ hsLast' = <<"cleanup", d>>
    /\ HandshakeFrame

\* 'download-cancel' from the Cancel button of DownloadProgress (shown with
\* the progress card, which the click also hides) or from the one VideoPreview
\* shows while the mutation is pending
CancelDownload ==
    /\ \E button \in {"progress", "preview"} :
          /\ button = "progress" => handshake.showProgress
          /\ button = "preview" => \E d \in Downloads : handshake.post[d] = "inflight"
          /\ handshake' =
                [onCancel(handshake) EXCEPT
                    !.showProgress = handshake.showProgress /\ button /= "progress",
                    !.cancelled = [d \in Downloads |->
                                      handshake.cancelled[d]
                                         \/ d \in awaitingStart(handshake)]]
    /\ hsLast' = <<"cancel", handshake.started>>
    /\ HandshakeFrame

HandshakeNext ==
    \/ StartDownload
    \/ CancelDownload
    \/ \E d \in Downloads :
          \/ PostSucceeds(d)
          \/ PostFails(d)
          \/ ResponseStarts(d)
          \/ IframeLoad(d)
          \/ FallbackTimeout(d)
          \/ PollTick(d)
          \/ IframeCleanup(d)

SpecHandshake == HandshakeInit /\ [][HandshakeNext]_vars

(***************************************************************************)
(* C38, C39: the start signal and the timers of the handshake              *)
(***************************************************************************)

\* the step dispatched 'download-started' from the closure of download d
dispatchedFor(d) == handshake'.dispatched[d] > handshake.dispatched[d]

C38_Step ==
    \A d \in Downloads :
        dispatchedFor(d) => handshake.dispatched[d] = 0 /\ ~handshake.cancelled[d]

\* C38: whatever the order of iframe load, poll tick, fallback timeout, cancel
\* and further downloads, 'download-started' is dispatched at most once for a
\* download and never after 'download-cancel' was received for it
C38_StartedOnceNeverAfterCancel == [][C38_Step]_vars

C39_Step ==
    ((\E d \in Downloads : dispatchedFor(d)) \/ hsLast'[1] = "cancel") =>
        \A d \in Downloads :
            d <= hsLast'[2] =>
                handshake'.timer[d] /= "armed" /\ handshake'.poll[d] /= "armed"

\* C39: right after 'download-started' was dispatched or 'download-cancel' was
\* handled, no fallback timeout and no cookie poll of that download or of an
\* earlier one is armed
C39_NoTimerLeftArmed == [][C39_Step]_vars

====
